---- MODULE Spec2Model ----
(***************************************************************************)
(* Model of pyRDDLGym's compiled simulation engine (JaxRDDLSimulator) and  *)
(* of the tensor alignment cache of RDDLTensors.                           *)
(*                                                                         *)
(* Python dicts are TLA+ functions, lists are sequences (1-based: the      *)
(* Python index i of enumerate() is position i + 1 here, which is also the *)
(* number the code prints in its messages).  An exception leaves the       *)
(* object as the handler had mutated it up to the raise.                   *)
(***************************************************************************)
EXTENDS Integers, Sequences, FiniteSets, TLC

\* ------------------------------------------------------------------ bounds
MaxCalls == 3      \* calls made on one simulator
ValMod == 3        \* fluent values are 0 .. ValMod-1
KeyMod == 3        \* random-generator keys are 0 .. KeyMod-1
MaxRunLen == 2     \* step calls made on each of two simulators run side by side
MaxMapCalls == 3   \* map calls made on one RDDLTensors instance
MaxParams == 2     \* parameters given in one invocation of a pvariable
MaxSignLen == 2    \* entries of an output signature

VARIABLES
    pomdp_model,      \* the lifted model declares an observ-fluent
    nterm,            \* number of termination functions the model declares
    ctor_raise_error, \* raise_error argument of __init__: "default", "True", "False"
    raise_error,      \* self.raise_error
    subs,             \* self.subs, the store
    key,              \* self.key
    state,            \* self.state
    last,             \* the last call: its arguments, the store before it, its outcome
    ncalls,           \* calls made so far
    twin,             \* a second simulator built from the same model and key
    runA, runB,       \* the step calls made on each of the two, with their outcomes
    cached_transforms,\* RDDLTensors._cached_transforms
    allocated,        \* number of transform closures created so far
    map_calls,        \* the map calls made so far, with their outcomes
    universe,         \* rddl.objects of the model an RDDLTensors is built from
    index_of_object,  \* RDDLTensors.index_of_object
    tin,              \* the arguments of one call on an RDDLTensors instance
    tout,             \* the outcome of that call
    threads           \* callers inside map at the same time, with their locals

simvars == <<pomdp_model, nterm, ctor_raise_error, raise_error, subs, key,
             state, last, ncalls>>
twinvars == <<twin, runA, runB>>
tensorvars == <<cached_transforms, allocated, map_calls>>
objvars == <<universe, index_of_object>>
callvars == <<tin, tout>>
restvars == <<objvars, callvars, threads>>
vars == <<simvars, twinvars, tensorvars, restvars>>

\* ------------------------------------------------------------ dict helpers
\* dict.update(other)
DictUpdate(d, other) ==
    [k \in (DOMAIN d) \cup (DOMAIN other) |->
        IF k \in DOMAIN other THEN other[k] ELSE d[k]]

EmptyDict == <<>>

\* ------------------------------------------------- the lifted model (rddl)
\* rddl.objects["room"]: the objects of the simulated model's one type
room == <<"r1", "r2">>

\* rddl.variable_types
variable_types ==
    [v \in {"act", "s", "t", "a", "b", "s'", "t'"} \cup
           (IF pomdp_model THEN {"o"} ELSE {}) |->
        CASE v = "act"          -> "action-fluent"
          [] v \in {"s", "t"}   -> "state-fluent"
          [] v \in {"a", "b"}   -> "interm-fluent"
          [] v \in {"s'", "t'"} -> "next-state-fluent"
          [] v = "o"            -> "observ-fluent"]

\* rddl.param_types: s(?r : room) is the one parameterised pvariable
param_types == [v \in DOMAIN variable_types |->
                   IF v \in {"s", "s'"} THEN <<"room">> ELSE <<>>]

\* compiled.init_values
init_values ==
    [v \in DOMAIN variable_types |->
        IF param_types[v] = <<>> THEN 0 ELSE [i \in 1..Len(room) |-> 0]]

\* compiled.levels, the values of the dict in key order
levels == <<  <<"a">>, <<"b">>, <<"t'", "s'">> >> \o
          (IF pomdp_model THEN << <<"o">> >> ELSE <<>>)

\* compiled.next_states, as (next_state, state) items in order
next_states == << <<"s'", "s">>, <<"t'", "t">> >>

\* rddl.ground_values(var, values): grounded names in order, paired with the
\* flattened values.  A grounded name is <<var, object>>, <<var, "">> for a
\* pvariable without parameters.
ground_values(var, values) ==
    IF param_types[var] = <<>>
    THEN [g \in {<<var, "">>} |-> values]
    ELSE [g \in {<<var, room[i]>> : i \in 1..Len(room)} |->
            values[CHOOSE i \in 1..Len(room) : room[i] = g[2]]]

\* --------------------------------------------- compiled functions (inputs)
\* Contract of every compiled function: (store, key) -> (value, key, error).
split(k) == (k + 1) % KeyMod

\* compiled.cpfs
cpfs(name, store, k) ==
    CASE name = "a" ->
            [value |-> (store["t"] + store["act"]) % ValMod,
             key |-> split(k), error |-> 0]
      [] name = "b" ->
            [value |-> (store["a"] + 1) % ValMod,
             key |-> split(k),
             error |-> IF store["a"] = ValMod - 1 THEN 1 ELSE 0]
      [] name = "s'" ->
            [value |-> [i \in 1..Len(room) |->
                          (store["s"][i] + store["b"] + i) % ValMod],
             key |-> split(k), error |-> 0]
      [] name = "t'" ->
            [value |-> (store["t"] + store["act"] + k) % ValMod,
             key |-> split(k), error |-> 0]
      [] name = "o" ->
            [value |-> (store["t'"] + store["b"]) % ValMod,
             key |-> split(k), error |-> 0]

\* compiled.reward
reward_fn(store, k) ==
    [value |-> store["t"] + store["act"] + store["t'"],
     key |-> split(k),
     error |-> IF store["act"] = 1 /\ store["t'"] = 0 THEN 2 ELSE 0]

\* compiled.invariants
NumInvariants == 2
invariants(i, store, k) ==
    CASE i = 1 ->
            [value |-> store["t"] # ValMod - 1,
             key |-> split(k),
             error |-> IF store["s"][1] = 1 THEN 1 ELSE 0]
      [] i = 2 ->
            [value |-> store["s"][2] # 0,
             key |-> split(k), error |-> 0]

\* compiled.preconditions
NumPreconds == 2
preconds(i, store, k) ==
    CASE i = 1 ->
            [value |-> store["act"] = 0 \/ store["t"] # 0,
             key |-> split(k), error |-> 0]
      [] i = 2 ->
            [value |-> store["act"] = 0 \/ store["s"][1] = 0,
             key |-> split(k),
             error |-> IF store["t"] = 1 THEN 1 ELSE 0]

\* compiled.termination
terminals(i, store, k) ==
    CASE i = 1 ->
            [value |-> store["t"] = ValMod - 1,
             key |-> split(k),
             error |-> IF store["s"][2] = 1 THEN 1 ELSE 0]
      [] i = 2 ->
            [value |-> store["s"][2] = 0,
             key |-> split(k), error |-> 0]

\* JaxRDDLCompiler.get_error_messages(error): one message per set bit
get_error_messages(error) == IF error = 0 THEN <<>> ELSE <<error>>

\* ------------------------------------------------------------- exceptions
NoExc == [type |-> "none", index |-> 0]
Exc(t, i) == [type |-> t, index |-> i]

\* One evaluation of a compiled function, as the trace records it
Call(kind, name, r) ==
    [kind |-> kind, name |-> name, value |-> r.value, error |-> r.error]

\* ------------------------------------------------------------ __init__
noop_actions ==
    [v \in {w \in DOMAIN init_values : variable_types[w] = "action-fluent"} |->
        init_values[v]]

observ_fluents ==
    IF pomdp_model THEN <<"o">> ELSE <<>>

_pomdp == observ_fluents # <<>>

DefaultRaiseError == FALSE

\* -------------------------------------------------------------- the object
\* A simulator while a handler runs: its fields, plus the evaluations made
\* (trace), the exception raised (exc) and the value returned (ret).
RetNone == [kind |-> "None"]

Machine(store, k, st) ==
    [subs |-> store, key |-> k, state |-> st,
     trace |-> <<>>, exc |-> NoExc, ret |-> RetNone]

\* self.state is None after construction, a dict after the first step
StateNone == [tag |-> "None"]
StateDict(d) == [tag |-> "dict", items |-> d]

\* handle_error_code(error, msg): TRUE iff it raises
handle_error_code(error) ==
    raise_error /\ get_error_messages(error) # <<>>

\* RDDLSimulator._process_actions(actions): the no-op actions overlaid with
\* the supplied ones; an undeclared action is rejected, nothing is touched.
_process_actions(actions) ==
    IF \E name \in DOMAIN actions : name \notin DOMAIN noop_actions
    THEN [raised |-> TRUE, actions |-> EmptyDict]
    ELSE [raised |-> FALSE, actions |-> DictUpdate(noop_actions, actions)]

\* mutant: the violation is reported under the 0-based index
RECURSIVE invariants_loop_index0(_, _)
invariants_loop_index0(m, i) ==
    IF i > NumInvariants THEN m
    ELSE LET r  == invariants(i, m.subs, m.key)
             m1 == [m EXCEPT !.key = r.key,
                             !.trace = Append(@, Call("invariant", i, r))]
         IN  IF handle_error_code(r.error)
             THEN [m1 EXCEPT !.exc = Exc("RDDLInvalidExpressionError", i)]
             ELSE IF ~r.value
             THEN [m1 EXCEPT !.exc = Exc("RDDLStateInvariantNotSatisfiedError", i - 1)]
             ELSE invariants_loop_index0(m1, i + 1)

\* check_state_invariants, the loop from position i on
RECURSIVE invariants_loop(_, _)
invariants_loop(m, i) ==
    IF i > NumInvariants THEN m
    ELSE LET r  == invariants(i, m.subs, m.key)
             m1 == [m EXCEPT !.key = r.key,
                             !.trace = Append(@, Call("invariant", i, r))]
         IN  IF handle_error_code(r.error)
             THEN [m1 EXCEPT !.exc = Exc("RDDLInvalidExpressionError", i)]
             ELSE IF ~r.value
             THEN [m1 EXCEPT !.exc = Exc("RDDLStateInvariantNotSatisfiedError", i)]
             ELSE invariants_loop(m1, i + 1)

check_state_invariants(m) == invariants_loop(m, 1)

\* check_action_preconditions, the loop from position i on
RECURSIVE preconds_loop(_, _)
preconds_loop(m, i) ==
    IF i > NumPreconds THEN m
    ELSE LET r  == preconds(i, m.subs, m.key)
             m1 == [m EXCEPT !.key = r.key,
                             !.trace = Append(@, Call("precondition", i, r))]
         IN  IF handle_error_code(r.error)
             THEN [m1 EXCEPT !.exc = Exc("RDDLInvalidExpressionError", i)]
             ELSE IF ~r.value
             THEN [m1 EXCEPT !.exc = Exc("RDDLActionPreconditionNotSatisfiedError", i)]
             ELSE preconds_loop(m1, i + 1)

\* subs = self.subs; subs.update(actions): the store itself is updated
merge_actions(m, processed) ==
    [m EXCEPT !.subs = DictUpdate(@, processed)]

\* mutant: the declared actions are merged before the others are rejected
check_action_preconditions_merge_first(m, actions) ==
    LET declared == [n \in (DOMAIN actions) \cap (DOMAIN noop_actions) |-> actions[n]]
        merged   == merge_actions(m, DictUpdate(noop_actions, declared))
    IN  IF _process_actions(actions).raised
        THEN [merged EXCEPT !.exc = Exc("RDDLInvalidActionError", 0)]
        ELSE preconds_loop(merged, 1)

check_action_preconditions(m, actions) ==
    LET pa == _process_actions(actions)
    IN  IF pa.raised
        THEN [m EXCEPT !.exc = Exc("RDDLInvalidActionError", 0)]
        ELSE preconds_loop(merge_actions(m, pa.actions), 1)

\* mutant: no early return, every termination function is evaluated
RECURSIVE terminals_loop_no_return(_, _)
terminals_loop_no_return(m, i) ==
    IF i > nterm
    THEN [m EXCEPT !.ret = [kind |-> "bool",
                            value |-> \E j \in 1..Len(m.trace) :
                                         /\ m.trace[j].kind = "termination"
                                         /\ m.trace[j].value]]
    ELSE LET r  == terminals(i, m.subs, m.key)
             m1 == [m EXCEPT !.key = r.key,
                             !.trace = Append(@, Call("termination", i, r))]
         IN  IF handle_error_code(r.error)
             THEN [m1 EXCEPT !.exc = Exc("RDDLInvalidExpressionError", i)]
             ELSE terminals_loop_no_return(m1, i + 1)

\* check_terminal_states, the loop from position i on
RECURSIVE terminals_loop(_, _)
terminals_loop(m, i) ==
    IF i > nterm THEN [m EXCEPT !.ret = [kind |-> "bool", value |-> FALSE]]
    ELSE LET r  == terminals(i, m.subs, m.key)
             m1 == [m EXCEPT !.key = r.key,
                             !.trace = Append(@, Call("termination", i, r))]
         IN  IF handle_error_code(r.error)
             THEN [m1 EXCEPT !.exc = Exc("RDDLInvalidExpressionError", i)]
             ELSE IF r.value
             THEN [m1 EXCEPT !.ret = [kind |-> "bool", value |-> TRUE]]
             ELSE terminals_loop(m1, i + 1)

check_terminal_states(m) == terminals_loop(m, 1)

\* sample_reward
sample_reward(m) ==
    LET r  == reward_fn(m.subs, m.key)
        m1 == [m EXCEPT !.key = r.key,
                        !.trace = Append(@, Call("reward", 0, r))]
    IN  IF handle_error_code(r.error)
        THEN [m1 EXCEPT !.exc = Exc("RDDLInvalidExpressionError", 0)]
        ELSE [m1 EXCEPT !.ret = [kind |-> "float", value |-> r.value]]

\* mutant: the Levels are walked from the last to the first
RECURSIVE level_order_reversed(_)
level_order_reversed(lv) ==
    IF lv = <<>> THEN <<>> ELSE level_order_reversed(Tail(lv)) \o Head(lv)

\* for cpfs in self.levels.values(): for cpf in cpfs: the evaluation order
RECURSIVE level_order(_)
level_order(lv) ==
    IF lv = <<>> THEN <<>> ELSE Head(lv) \o level_order(Tail(lv))

\* mutant: the CPFs draw from an ambient key instead of the threaded one
RECURSIVE cpfs_loop_ambient_key(_, _)
cpfs_loop_ambient_key(m, todo) ==
    IF todo = <<>> THEN m
    ELSE LET cpf == Head(todo)
             r   == cpfs(cpf, m.subs, key)
             m1  == [m EXCEPT !.subs = DictUpdate(@, [v \in {cpf} |-> r.value]),
                              !.trace = Append(@, Call("cpf", cpf, r))]
         IN  IF handle_error_code(r.error)
             THEN [m1 EXCEPT !.exc = Exc("RDDLInvalidExpressionError", 0)]
             ELSE cpfs_loop_ambient_key(m1, Tail(todo))

\* mutant: every member of a Level writes the slot of the Level's last
\* member
RECURSIVE cpfs_loop_level_slot(_, _)
cpfs_loop_level_slot(m, todo) ==
    IF todo = <<>> THEN m
    ELSE LET cpf == Head(todo)
             lv  == levels[CHOOSE l \in 1..Len(levels) :
                               \E j \in 1..Len(levels[l]) : levels[l][j] = cpf]
             r   == cpfs(cpf, m.subs, m.key)
             m1  == [m EXCEPT !.subs = DictUpdate(@, [v \in {lv[Len(lv)]} |-> r.value]),
                              !.key = r.key,
                              !.trace = Append(@, Call("cpf", cpf, r))]
         IN  IF handle_error_code(r.error)
             THEN [m1 EXCEPT !.exc = Exc("RDDLInvalidExpressionError", 0)]
             ELSE cpfs_loop_level_slot(m1, Tail(todo))

\* the body of the CPF loop, over the CPFs still to evaluate
RECURSIVE cpfs_loop(_, _)
cpfs_loop(m, todo) ==
    IF todo = <<>> THEN m
    ELSE LET cpf == Head(todo)
             r   == cpfs(cpf, m.subs, m.key)
             m1  == [m EXCEPT !.subs = DictUpdate(@, [v \in {cpf} |-> r.value]),
                              !.key = r.key,
                              !.trace = Append(@, Call("cpf", cpf, r))]
         IN  IF handle_error_code(r.error)
             THEN [m1 EXCEPT !.exc = Exc("RDDLInvalidExpressionError", 0)]
             ELSE cpfs_loop(m1, Tail(todo))

\* mutant: the copy goes the wrong way, subs[next_state] = subs[state]
RECURSIVE update_state_loop_swapped(_, _)
update_state_loop_swapped(m, items) ==
    IF items = <<>> THEN m
    ELSE LET next_state == Head(items)[1]
             st         == Head(items)[2]
             store      == DictUpdate(m.subs, [v \in {next_state} |-> m.subs[st]])
         IN  update_state_loop_swapped(
                 [m EXCEPT !.subs = store,
                           !.state = StateDict(DictUpdate(
                               @.items, ground_values(st, store[st])))],
                 Tail(items))

\* self.state = {}; then for every (next_state, state) item
RECURSIVE update_state_loop(_, _)
update_state_loop(m, items) ==
    IF items = <<>> THEN m
    ELSE LET next_state == Head(items)[1]
             st         == Head(items)[2]
             store      == DictUpdate(m.subs, [v \in {st} |-> m.subs[next_state]])
         IN  update_state_loop(
                 [m EXCEPT !.subs = store,
                           !.state = StateDict(DictUpdate(
                               @.items, ground_values(st, store[st])))],
                 Tail(items))

update_state(m) ==
    update_state_loop([m EXCEPT !.state = StateDict(EmptyDict)], next_states)

\* obs = {}; for var in self.observ_fluents: obs.update(ground_values(...))
RECURSIVE observ_loop(_, _, _)
observ_loop(store, obs, fluents) ==
    IF fluents = <<>> THEN obs
    ELSE observ_loop(store,
                     DictUpdate(obs, ground_values(Head(fluents), store[Head(fluents)])),
                     Tail(fluents))

\* mutant: the observation is the state whatever the model declares
update_observation_full_state(m) == m.state.items

update_observation(m) ==
    IF _pomdp THEN observ_loop(m.subs, EmptyDict, observ_fluents)
    ELSE m.state.items

\* step(actions)
\* mutant: the state advances although the reward raised
step_advance_before_raise(m, actions) ==
    LET pa == _process_actions(actions)
    IN  IF pa.raised
        THEN [m EXCEPT !.exc = Exc("RDDLInvalidActionError", 0)]
        ELSE
        LET m1 == cpfs_loop(merge_actions(m, pa.actions), level_order(levels))
        IN  IF m1.exc # NoExc THEN m1
            ELSE
            LET m2 == sample_reward(m1)
            IN  IF m2.exc # NoExc THEN update_state(m2)
                ELSE
                LET m3  == update_state(m2)
                    obs == update_observation(m3)
                    m4  == check_terminal_states(m3)
                IN  IF m4.exc # NoExc THEN m4
                    ELSE [m4 EXCEPT !.ret =
                            [kind |-> "triple", obs |-> obs,
                             reward |-> m2.ret.value, done |-> m4.ret.value]]

\* mutant: the reward is sampled after the state has advanced
step_reward_after_advance(m, actions) ==
    LET pa == _process_actions(actions)
    IN  IF pa.raised
        THEN [m EXCEPT !.exc = Exc("RDDLInvalidActionError", 0)]
        ELSE
        LET m1 == cpfs_loop(merge_actions(m, pa.actions), level_order(levels))
        IN  IF m1.exc # NoExc THEN m1
            ELSE
            LET m2 == sample_reward(update_state(m1))
            IN  IF m2.exc # NoExc THEN m2
                ELSE
                LET obs == update_observation(m2)
                    m4  == check_terminal_states(m2)
                IN  IF m4.exc # NoExc THEN m4
                    ELSE [m4 EXCEPT !.ret =
                            [kind |-> "triple", obs |-> obs,
                             reward |-> m2.ret.value, done |-> m4.ret.value]]

step(m, actions) ==
    LET pa == _process_actions(actions)
    IN  IF pa.raised
        THEN [m EXCEPT !.exc = Exc("RDDLInvalidActionError", 0)]
        ELSE
        LET m1 == cpfs_loop(merge_actions(m, pa.actions), level_order(levels))
        IN  IF m1.exc # NoExc THEN m1
            ELSE
            LET m2 == sample_reward(m1)
            IN  IF m2.exc # NoExc THEN m2
                ELSE
                LET m3  == update_state(m2)
                    obs == update_observation(m3)
                    m4  == check_terminal_states(m3)
                IN  IF m4.exc # NoExc THEN m4
                    ELSE [m4 EXCEPT !.ret =
                            [kind |-> "triple", obs |-> obs,
                             reward |-> m2.ret.value, done |-> m4.ret.value]]

\* ------------------------------------------------------------------ inputs
\* action dicts a caller may pass: nothing, the declared action-fluent, an
\* undeclared name, or both
ActionInputs ==
    {EmptyDict} \cup
    {[n \in {"act"} |-> v] : v \in 0..1} \cup
    {[n \in {"bogus"} |-> v] : v \in 0..1} \cup
    {[n \in {"act", "bogus"} |-> v] : v \in 0..1}

\* ----------------------------------------------------------------- actions
SimInit ==
    /\ pomdp_model \in BOOLEAN
    /\ nterm \in {0, 2}
    /\ ctor_raise_error \in {"default", "True", "False"}
    /\ raise_error = (IF ctor_raise_error = "default" THEN DefaultRaiseError
                      ELSE ctor_raise_error = "True")
    /\ subs = init_values
    /\ key \in 0..(KeyMod - 1)
    /\ state = StateNone
    /\ last = [op |-> "init", actions |-> EmptyDict, subs |-> init_values,
               key |-> key, state |-> StateNone, out |-> Machine(init_values, key, StateNone)]
    /\ ncalls = 0

\* the variables of the parts a specification does not exercise
TwinIdle == twin = StateNone /\ runA = <<>> /\ runB = <<>>
TensorIdle == cached_transforms = EmptyDict /\ allocated = 0 /\ map_calls = <<>>
NoCall == [op |-> "none"]
ObjectsIdle == universe = <<>> /\ index_of_object = EmptyDict
CallIdle == tin = NoCall /\ tout = NoCall
ThreadsIdle == threads = <<>>
RestIdle == ObjectsIdle /\ CallIdle /\ ThreadsIdle

Init == SimInit /\ TwinIdle /\ TensorIdle /\ RestIdle

\* a call of handler op that turned the simulator into m
Record(op, actions, m) ==
    /\ subs' = m.subs
    /\ key' = m.key
    /\ state' = m.state
    /\ last' = [op |-> op, actions |-> actions, subs |-> subs, key |-> key,
                state |-> state, out |-> m]
    /\ ncalls' = ncalls + 1
    /\ UNCHANGED <<pomdp_model, nterm, ctor_raise_error, raise_error>>

Step ==
    /\ ncalls < MaxCalls
    /\ \E actions \in ActionInputs :
          Record("step", actions, step(Machine(subs, key, state), actions))

CheckStateInvariants ==
    /\ ncalls < MaxCalls
    /\ Record("check_state_invariants", EmptyDict,
              check_state_invariants(Machine(subs, key, state)))

CheckActionPreconditions ==
    /\ ncalls < MaxCalls
    /\ \E actions \in ActionInputs :
          Record("check_action_preconditions", actions,
                 check_action_preconditions(Machine(subs, key, state), actions))

CheckTerminalStates ==
    /\ ncalls < MaxCalls
    /\ Record("check_terminal_states", EmptyDict,
              check_terminal_states(Machine(subs, key, state)))

Next ==
    \/ Step /\ UNCHANGED <<twinvars, tensorvars, restvars>>
    \/ CheckStateInvariants /\ UNCHANGED <<twinvars, tensorvars, restvars>>
    \/ CheckActionPreconditions /\ UNCHANGED <<twinvars, tensorvars, restvars>>
    \/ CheckTerminalStates /\ UNCHANGED <<twinvars, tensorvars, restvars>>

Spec == Init /\ [][Next]_vars

\* ------------------------------------------- two simulators side by side
\* Two independent instances built from the same model with the same key;
\* each is stepped on its own, in any interleaving.
TwinActions ==
    {EmptyDict, [n \in {"act"} |-> 1], [n \in {"bogus"} |-> 0]}

Outcome(actions, m) == [actions |-> actions, exc |-> m.exc, ret |-> m.ret]

InitDet ==
    /\ SimInit
    /\ twin = [subs |-> init_values, key |-> key, state |-> StateNone]
    /\ runA = <<>>
    /\ runB = <<>>
    /\ TensorIdle
    /\ RestIdle

StepA ==
    /\ Len(runA) < MaxRunLen
    /\ \E actions \in TwinActions :
          LET m == step(Machine(subs, key, state), actions)
          IN  /\ Record("step", actions, m)
              /\ runA' = Append(runA, Outcome(actions, m))
    /\ UNCHANGED <<twin, runB, tensorvars, restvars>>

StepB ==
    /\ Len(runB) < MaxRunLen
    /\ \E actions \in TwinActions :
          LET m == step(Machine(twin.subs, twin.key, twin.state), actions)
          IN  /\ twin' = [subs |-> m.subs, key |-> m.key, state |-> m.state]
              /\ runB' = Append(runB, Outcome(actions, m))
    /\ UNCHANGED <<simvars, runA, tensorvars, restvars>>

NextDet == StepA \/ StepB

SpecDet == InitDet /\ [][NextDet]_vars

\* ============================================================ RDDLTensors
\* ------------------------------------------------- the model it is built on
\* rddl.objects
objects ==
    [ptype \in {"zone", "heater"} |->
        IF ptype = "zone" THEN <<"z1", "z2", "z3">> ELSE <<"h1", "h2">>]

\* rddl.param_types of the pvariables map is asked about
tensor_param_types ==
    [var \in {"adj", "temp", "occ", "setting"} |->
        IF var = "adj" THEN <<"zone", "zone">>
        ELSE IF var = "occ" THEN <<"heater", "zone">>
        ELSE IF var = "setting" THEN <<"zone">> ELSE <<>>]

\* len(RDDLTensors.VALID_SYMBOLS)
NumValidSymbols == 52

\* self.rddl.param_types.get(var, [])
param_types_get(var) ==
    IF var \in DOMAIN tensor_param_types THEN tensor_param_types[var] ELSE <<>>

\* shape(types)
shape(types) == [i \in 1..Len(types) |-> Len(objects[types[i]])]

\* rddl.objects.items(), in the order the dict holds the Types
objects_items ==
    << <<"zone", objects["zone"]>>, <<"heater", objects["heater"]>> >>

\* rddl.enum_types, rddl.enum_literals and rddl.objects_rev
enum_types == {"heater"}

enum_literals ==
    UNION {{objects[t][i] : i \in 1..Len(objects[t])} : t \in enum_types}

objects_rev(obj) ==
    CHOOSE t \in DOMAIN objects : \E i \in 1..Len(objects[t]) : objects[t][i] = obj

\* mutant: the objects of a Type are numbered from 1
enumerate_from_one(index, objs) ==
    DictUpdate(index,
        [obj \in {objs[i] : i \in 1..Len(objs)} |->
            CHOOSE i \in 1..Len(objs) :
                /\ objs[i] = obj
                /\ \A j \in 1..Len(objs) : objs[j] = obj => j <= i])

\* for i, obj in enumerate(objs): index_of_object[obj] = i
enumerate_into(index, objs) ==
    DictUpdate(index,
        [obj \in {objs[i] : i \in 1..Len(objs)} |->
            (CHOOSE i \in 1..Len(objs) :
                /\ objs[i] = obj
                /\ \A j \in 1..Len(objs) : objs[j] = obj => j <= i) - 1])

\* the index table of _compile_objects: one dict for the objects of all
\* Types, filled Type after Type
RECURSIVE index_loop(_, _)
index_loop(items, index) ==
    IF items = <<>> THEN index
    ELSE index_loop(Tail(items), enumerate_into(index, Head(items)[2]))

_compile_objects(items) == index_loop(items, EmptyDict)

\* [x for i, x in enumerate(seq) if i not in literals], i the index of Head
RECURSIVE drop_literals(_, _, _)
drop_literals(seq, literals, i) ==
    IF seq = <<>> THEN <<>>
    ELSE (IF i \in literals THEN <<>> ELSE <<Head(seq)>>)
            \o drop_literals(Tail(seq), literals, i + 1)

\* tuple(zip(a, b))
zip(a, b) ==
    [i \in 1..(IF Len(a) <= Len(b) THEN Len(a) ELSE Len(b)) |-> <<a[i], b[i]>>]

\* mutant: a matched label is accepted whatever its Type
RECURSIVE permutation_loop_untyped(_, _, _, _, _)
permutation_loop_untyped(sign_in, sign_out, i_out, permutation, new_dims) ==
    IF i_out >= Len(sign_out)
    THEN [raised |-> FALSE, permutation |-> permutation, new_dims |-> new_dims]
    ELSE LET o_out   == sign_out[i_out + 1][1]
             t_out   == sign_out[i_out + 1][2]
             matches == {i_in \in 1..Len(sign_in) : sign_in[i_in][1] = o_out}
         IN  IF matches = {}
             THEN permutation_loop_untyped(sign_in, sign_out, i_out + 1,
                                   Append(permutation, i_out),
                                   Append(new_dims, Len(objects[t_out])))
             ELSE permutation_loop_untyped(sign_in, sign_out, i_out + 1,
                                   [j \in 1..Len(permutation) |->
                                       IF j \in matches THEN i_out
                                       ELSE permutation[j]],
                                   new_dims)

\* the loop over sign_out from output axis i_out on: an unset entry of
\* permutation (None) is -1, axes are numbered from 0
RECURSIVE permutation_loop(_, _, _, _, _)
permutation_loop(sign_in, sign_out, i_out, permutation, new_dims) ==
    IF i_out >= Len(sign_out)
    THEN [raised |-> FALSE, permutation |-> permutation, new_dims |-> new_dims]
    ELSE LET o_out   == sign_out[i_out + 1][1]
             t_out   == sign_out[i_out + 1][2]
             matches == {i_in \in 1..Len(sign_in) : sign_in[i_in][1] = o_out}
         IN  IF \E i_in \in matches : sign_in[i_in][2] # t_out
             THEN [raised |-> TRUE, permutation |-> permutation,
                   new_dims |-> new_dims]
             ELSE IF matches = {}
             THEN permutation_loop(sign_in, sign_out, i_out + 1,
                                   Append(permutation, i_out),
                                   Append(new_dims, Len(objects[t_out])))
             ELSE permutation_loop(sign_in, sign_out, i_out + 1,
                                   [j \in 1..Len(permutation) |->
                                       IF j \in matches THEN i_out
                                       ELSE permutation[j]],
                                   new_dims)

\* np.argsort of a list of distinct numbers, as 0-based positions
argsort(p) ==
    [k \in 1..Len(p) |->
        (CHOOSE i \in 1..Len(p) :
            Cardinality({j \in 1..Len(p) : p[j] < p[i]}) = k - 1) - 1]

\* subscripts: the einsum string lhs->rhs, the transpose axes, or None
Subscripts(kind, lhs, rhs, axes) ==
    [kind |-> kind, lhs |-> lhs, rhs |-> rhs, axes |-> axes]

\* the formatted cache key: its fields, which the format keeps apart
transform_id(new_axis, out_shape, use_einsum, use_tr, subscripts) ==
    <<new_axis, out_shape, use_einsum, use_tr, subscripts>>

\* the closure _transform: the values it captured and its identity
NoTransform == [id |-> 0]

\* mutant: the cache is never hit
cached_transforms_get_miss(cache, tid) == NoTransform

\* self._cached_transforms.get(transform_id, None)
cached_transforms_get(cache, tid) ==
    IF tid \in DOMAIN cache THEN cache[tid] ELSE NoTransform

NoMapExc == [type |-> "none", msg |-> ""]

\* raise type(msg) out of map: no transform is returned, the cache is as it was
MapRaise(cache, alloc, type, msg) ==
    [exc |-> [type |-> type, msg |-> msg], fn |-> NoTransform,
     cache |-> cache, allocated |-> alloc]

\* a parameter list that was not given (None); no label is spelt this way
NoneParams == <<"None">>

\* if obj_in is None: obj_in = []
or_empty(params) == IF params = NoneParams THEN <<>> ELSE params

\* what map raised: nothing, or an exception of a class with its message
MapExc(type, msg) == [exc |-> [type |-> type, msg |-> msg]]

\* mutant: only too many parameters are refused
arity_exceeds(params, types_in) == Len(params) > Len(types_in)

\* len(obj_in) != len(types_in)
arity_differs(params, types_in) == Len(params) # Len(types_in)

\* mutant: no position counts as unresolved
unresolved_none(permutation) == {}

\* free = {obj_in[i] for i, p in enumerate(permutation) if p is None}, as
\* positions
unresolved(permutation) ==
    {i \in 1..Len(permutation) : permutation[i] = -1}

\* map up to the cache key: the checks, the permutation and the values the
\* closure will capture
map_prepare(var, obj_in1, sign_out, literals) ==
    LET types_in0 == param_types_get(var)
        obj_in0   == or_empty(obj_in1)
    IN  IF arity_differs(obj_in0, types_in0)
        THEN MapExc("RDDLInvalidNumberOfArgumentsError", "requires parameters")
        ELSE
        LET types_in == drop_literals(types_in0, literals, 0)
            obj_in   == drop_literals(obj_in0, literals, 0)
            n_out    == Len(sign_out)
        IN  IF n_out > NumValidSymbols
            THEN MapExc("RDDLInvalidNumberOfArgumentsError",
                        "at most object arguments")
            ELSE
            LET sign_in == zip(obj_in, types_in)
                pl == permutation_loop(sign_in, sign_out, 0,
                                       [i \in 1..Len(obj_in) |-> -1], <<>>)
            IN  IF pl.raised
                THEN MapExc("RDDLInvalidObjectError", "expects type")
                ELSE IF unresolved(pl.permutation) # {}
                THEN MapExc("RDDLInvalidNumberOfArgumentsError",
                            "unresolved parameter(s)")
                ELSE
                LET permutation == pl.permutation
                    in_shape   == shape(types_in)
                    out_shape  == in_shape \o pl.new_dims
                    new_axis   == [i \in 1..Len(pl.new_dims) |->
                                      Len(in_shape) + i - 1]
                    lhs        == permutation
                    rhs        == [i \in 1..n_out |-> i - 1]
                    use_einsum == Cardinality({lhs[i] : i \in 1..Len(lhs)})
                                     # Len(lhs)
                    use_tr     == lhs # rhs
                    subscripts ==
                        IF use_einsum THEN Subscripts("einsum", lhs, rhs, <<>>)
                        ELSE IF use_tr
                        THEN Subscripts("transpose", <<>>, <<>>, argsort(permutation))
                        ELSE Subscripts("None", <<>>, <<>>, <<>>)
                IN  [exc |-> NoMapExc, new_axis |-> new_axis,
                     out_shape |-> out_shape, use_einsum |-> use_einsum,
                     use_tr |-> use_tr, subscripts |-> subscripts,
                     tid |-> transform_id(new_axis, out_shape, use_einsum,
                                          use_tr, subscripts)]

\* def _transform(arg): the closure created on a miss, the id-th of the
\* instance, with the values p it captured and the library gnp
new_transform(p, gnp, id) ==
    [id |-> id, new_axis |-> p.new_axis, out_shape |-> p.out_shape,
     use_einsum |-> p.use_einsum, use_tr |-> p.use_tr,
     subscripts |-> p.subscripts, gnp |-> gnp]

\* map(var, obj_in, sign_out, literals, gnp) on an instance whose cache is
\* cache and on which alloc closures were created so far
map(cache, alloc, var, obj_in, sign_out, literals, gnp) ==
    LET p == map_prepare(var, obj_in, sign_out, literals)
    IN  IF p.exc # NoMapExc
        THEN MapRaise(cache, alloc, p.exc.type, p.exc.msg)
        ELSE
        LET cached == cached_transforms_get(cache, p.tid)
            made   == new_transform(p, gnp, alloc + 1)
        IN  IF cached = NoTransform
            THEN [exc |-> NoMapExc, fn |-> made,
                  cache |-> DictUpdate(cache, [k \in {p.tid} |-> made]),
                  allocated |-> alloc + 1]
            ELSE [exc |-> NoMapExc, fn |-> cached, cache |-> cache,
                  allocated |-> alloc]

\* ------------------------------------------------------------------ arrays
\* an array is its shape and its value at every index (indices from 0); a
\* library call that raises gives NoArray
NoArray == [ok |-> FALSE, shape |-> <<>>, at |-> <<>>]

Array(sh, at) == [ok |-> TRUE, shape |-> sh, at |-> at]

RECURSIVE Indices(_)
Indices(sh) ==
    IF sh = <<>> THEN {<<>>}
    ELSE {<<i>> \o rest : i \in 0..(sh[1] - 1), rest \in Indices(Tail(sh))}

RECURSIVE size(_)
size(sh) == IF sh = <<>> THEN 1 ELSE sh[1] * size(Tail(sh))

\* the position of index idx in row-major (C) order
RECURSIVE ravel_index(_, _)
ravel_index(idx, sh) ==
    IF idx = <<>> THEN 0
    ELSE idx[1] * size(Tail(sh)) + ravel_index(Tail(idx), Tail(sh))

\* the subsequence of seq at the positions (from 1) in keep
RECURSIVE select(_, _, _)
select(seq, keep, j) ==
    IF j > Len(seq) THEN <<>>
    ELSE (IF j \in keep THEN <<seq[j]>> ELSE <<>>) \o select(seq, keep, j + 1)

\* gnp.expand_dims(a, axis=axes): axes of length 1 at the positions axes of
\* the result
expand_dims(a, axes) ==
    LET n    == Len(a.shape) + Len(axes)
        new  == {axes[i] + 1 : i \in 1..Len(axes)}
        old  == (1..n) \ new
        rank(j) == Cardinality({k \in old : k <= j})
    IN  IF ~a.ok \/ \E k \in new : k > n THEN NoArray
        ELSE LET sh == [j \in 1..n |-> IF j \in new THEN 1 ELSE a.shape[rank(j)]]
             IN  Array(sh, [idx \in Indices(sh) |-> a.at[select(idx, old, 1)]])

\* gnp.broadcast_to(a, shape=sh): axes are matched from the last one, an
\* axis of length 1 is repeated, any other length has to agree
broadcast_to(a, sh) ==
    LET m == Len(a.shape)
        n == Len(sh)
    IN  IF \/ ~a.ok
           \/ m > n
           \/ \E k \in 1..m : a.shape[k] # 1 /\ a.shape[k] # sh[k + n - m]
        THEN NoArray
        ELSE Array(sh, [idx \in Indices(sh) |->
                a.at[[k \in 1..m |->
                        IF a.shape[k] = 1 THEN 0 ELSE idx[k + n - m]]]])

RECURSIVE SumOver(_, _)
SumOver(f, S) ==
    IF S = {} THEN 0
    ELSE LET x == CHOOSE y \in S : TRUE IN f[x] + SumOver(f, S \ {x})

\* mutant: equal letters do not walk a diagonal, the axes of a repeated
\* letter other than the ones named by the output are summed
einsum_row_sum(lhs, rhs, a) ==
    LET inl  == {lhs[k] : k \in 1..Len(lhs)}
        outl == {rhs[j] : j \in 1..Len(rhs)}
        dim(l) == a.shape[CHOOSE k \in 1..Len(lhs) : lhs[k] = l]
        first(l) == CHOOSE k \in 1..Len(lhs) :
                        lhs[k] = l /\ \A k2 \in 1..Len(lhs) : lhs[k2] = l => k <= k2
    IN  IF \/ ~a.ok
           \/ Len(lhs) # Len(a.shape)
           \/ ~(outl \subseteq inl)
           \/ Cardinality(outl) # Len(rhs)
           \/ \E k \in 1..Len(lhs) : a.shape[k] # dim(lhs[k])
        THEN NoArray
        ELSE LET sh == [j \in 1..Len(rhs) |-> dim(rhs[j])]
                 under(o) ==
                    {i \in Indices(a.shape) :
                        \A j \in 1..Len(rhs) : i[first(rhs[j])] = o[j]}
             IN  Array(sh, [o \in Indices(sh) |-> SumOver(a.at, under(o))])

\* gnp.einsum(lhs->rhs, a) for one operand: axis k of a carries letter
\* lhs[k], equal letters walk a diagonal, letters missing in rhs are summed
einsum(lhs, rhs, a) ==
    LET inl  == {lhs[k] : k \in 1..Len(lhs)}
        outl == {rhs[j] : j \in 1..Len(rhs)}
        dim(l) == a.shape[CHOOSE k \in 1..Len(lhs) : lhs[k] = l]
    IN  IF \/ ~a.ok
           \/ Len(lhs) # Len(a.shape)
           \/ ~(outl \subseteq inl)
           \/ Cardinality(outl) # Len(rhs)
           \/ \E k \in 1..Len(lhs) : a.shape[k] # dim(lhs[k])
        THEN NoArray
        ELSE LET sh == [j \in 1..Len(rhs) |-> dim(rhs[j])]
                 \* the indices of a that agree with output index o
                 under(o) ==
                    {i \in Indices(a.shape) :
                        /\ \A k1, k2 \in 1..Len(lhs) :
                              lhs[k1] = lhs[k2] => i[k1] = i[k2]
                        /\ \A k \in 1..Len(lhs), j \in 1..Len(rhs) :
                              lhs[k] = rhs[j] => i[k] = o[j]}
             IN  Array(sh, [o \in Indices(sh) |-> SumOver(a.at, under(o))])

\* mutant: the axes stay where they are
transpose_keep(a, axes) == a

\* gnp.transpose(a, axes=axes): axis j of the result is axis axes[j] of a
transpose(a, axes) ==
    IF \/ ~a.ok
       \/ Len(axes) # Len(a.shape)
       \/ {axes[j] : j \in 1..Len(axes)} # 0..(Len(a.shape) - 1)
    THEN NoArray
    ELSE LET sh == [j \in 1..Len(axes) |-> a.shape[axes[j] + 1]]
         IN  Array(sh, [idx \in Indices(sh) |->
                a.at[[k \in 1..Len(axes) |->
                        idx[CHOOSE j \in 1..Len(axes) : axes[j] = k - 1]]]])

\* _transform(arg), the closure fn called on the array arg
apply_transform(fn, arg) ==
    LET sample ==
            IF fn.new_axis # <<>>
            THEN broadcast_to(expand_dims(arg, fn.new_axis), fn.out_shape)
            ELSE arg
    IN  IF fn.use_einsum
        THEN einsum(fn.subscripts.lhs, fn.subscripts.rhs, sample)
        ELSE IF fn.use_tr THEN transpose(sample, fn.subscripts.axes)
        ELSE sample

\* a[selectors] for a tuple of integers and slice(None): an integer fixes
\* its axis and removes it, slice(None) keeps the axis
SelectAll == [kind |-> "slice", i |-> 0]
Fixed(i) == [kind |-> "int", i |-> i]

index_array(a, selectors) ==
    LET n    == Len(selectors)
        kept == {k \in 1..Len(a.shape) : k > n \/ selectors[k].kind = "slice"}
    IN  IF \/ ~a.ok
           \/ n > Len(a.shape)
           \/ \E k \in 1..n : /\ selectors[k].kind = "int"
                              /\ selectors[k].i >= a.shape[k]
        THEN NoArray
        ELSE LET sh == select(a.shape, kept, 1)
             IN  Array(sh, [idx \in Indices(sh) |->
                    a.at[[k \in 1..Len(a.shape) |->
                            IF k \in kept
                            THEN idx[Cardinality({j \in kept : j <= k})]
                            ELSE selectors[k].i]]])

\* ------------------------------------------------------------ literal_slice
NoSlices == <<>>

SliceRaise(type, msg) ==
    [exc |-> [type |-> type, msg |-> msg], slices |-> NoSlices, literals |-> {}]

\* the loop over pvars from Python position i on
RECURSIVE literal_slice_loop(_, _, _, _, _, _)
literal_slice_loop(index, pvars, types_in, i, cached_slices, literals) ==
    IF i >= Len(pvars)
    THEN [exc |-> NoMapExc, slices |-> cached_slices, literals |-> literals]
    ELSE LET pvar == pvars[i + 1]
         IN  IF pvar \in enum_literals
             THEN IF types_in[i + 1] # objects_rev(pvar)
                  THEN SliceRaise("RDDLInvalidObjectError", "expects type")
                  ELSE literal_slice_loop(index, pvars, types_in, i + 1,
                                          Append(cached_slices, Fixed(index[pvar])),
                                          literals \cup {i})
             ELSE literal_slice_loop(index, pvars, types_in, i + 1,
                                     Append(cached_slices, SelectAll), literals)

\* literal_slice(var, pvars) on an instance whose index table is index
literal_slice(index, var, pvars0) ==
    LET pvars    == or_empty(pvars0)
        types_in == param_types_get(var)
    IN  IF arity_differs(pvars, types_in)
        THEN SliceRaise("RDDLInvalidNumberOfArgumentsError", "requires parameters")
        ELSE literal_slice_loop(index, pvars, types_in, 0, <<>>, {})

\* ------------------------------------------------------------------ expand
\* the grounded name var(args), as the pair of the two
GroundedName(var, args) == <<var, args>>

\* the argument tuples of rddl.grounded_names(var, types): the Cartesian
\* product of the instance lists, the last Type varying fastest
RECURSIVE product(_)
product(types) ==
    IF types = <<>> THEN << <<>> >>
    ELSE LET first == objects[Head(types)]
             rest  == product(Tail(types))
         IN  [k \in 1..(Len(first) * Len(rest)) |->
                <<first[((k - 1) \div Len(rest)) + 1]>>
                    \o rest[((k - 1) % Len(rest)) + 1]]

\* self.grounded[var] = list(self.rddl.grounded_names(var, types))
grounded(var) ==
    LET args == product(tensor_param_types[var])
    IN  [k \in 1..Len(args) |-> GroundedName(var, args[k])]

\* mutant: the first axis varies fastest
ravel_columns(a) ==
    [k \in 1..size(a.shape) |->
        a.at[CHOOSE idx \in Indices(a.shape) :
                ravel_index([j \in 1..Len(idx) |-> idx[Len(idx) + 1 - j]],
                            [j \in 1..Len(idx) |-> a.shape[Len(idx) + 1 - j]])
                    = k - 1]]

\* np.ravel(a): the elements in row-major order
ravel(a) ==
    [k \in 1..size(a.shape) |->
        a.at[CHOOSE idx \in Indices(a.shape) : ravel_index(idx, a.shape) = k - 1]]

NoPairs == <<>>

\* expand(var, values)
expand(var, values0) ==
    IF var \notin DOMAIN tensor_param_types
    THEN [exc |-> [type |-> "KeyError", msg |-> var], pairs |-> NoPairs]
    ELSE LET keys   == grounded(var)
             values == ravel(values0)
         IN  IF Len(keys) # Len(values)
             THEN [exc |-> [type |-> "RDDLInvalidNumberOfArgumentsError",
                            msg |-> "Size of value array is not compatible"],
                   pairs |-> NoPairs]
             ELSE [exc |-> NoMapExc, pairs |-> zip(keys, values)]

\* ------------------------------------------------------ _compile_init_values
\* Python values: a tag for the type, the number of an int, real or bool
\* (False is 0, True is 1) and the text of a str
PyInt(n) == [t |-> "int", n |-> n, s |-> ""]
PyReal(n) == [t |-> "real", n |-> n, s |-> ""]
PyBool(b) == [t |-> "bool", n |-> IF b THEN 1 ELSE 0, s |-> ""]
PyStr(s) == [t |-> "str", n |-> 0, s |-> s]
PyNone == [t |-> "None", n |-> 0, s |-> ""]

\* RDDLTensors.DEFAULT_VALUES
DEFAULT_VALUES ==
    [prange \in {"int", "real", "bool"} |->
        IF prange = "int" THEN PyInt(0)
        ELSE IF prange = "real" THEN PyReal(0) ELSE PyBool(FALSE)]

\* RDDLTensors.NUMPY_TYPES[prange](value): str does not convert
dtype(prange, value) ==
    IF value.t \notin {"int", "real", "bool"} THEN [t |-> "ValueError", n |-> 0, s |-> value.s]
    ELSE IF prange = "bool" THEN PyBool(value.n # 0)
    ELSE [t |-> prange, n |-> value.n, s |-> ""]

\* rddl.variable_ranges as declared, and with a range that is neither a
\* primitive nor an enum Type
variable_ranges_valid ==
    [var \in DOMAIN tensor_param_types |->
        IF var = "adj" THEN "int"
        ELSE IF var = "occ" THEN "bool"
        ELSE IF var = "setting" THEN "heater" ELSE "real"]

variable_ranges_invalid == [variable_ranges_valid EXCEPT !["temp"] = "complex"]

\* rddl.parse(name)[0]
parse_var(name) == name[1]

\* self.rddl.objects_rev.get(value, None)
objects_rev_get(value) ==
    IF /\ value.t = "str"
       /\ \E ptype \in DOMAIN objects :
             \E i \in 1..Len(objects[ptype]) : objects[ptype][i] = value.s
    THEN objects_rev(value.s) ELSE "None"

\* init_values.get(name, default)
get_or(d, name, default) == IF name \in DOMAIN d THEN d[name] ELSE default

BuildRaise(type, msg) ==
    [exc |-> [type |-> type, msg |-> msg], init_arrays |-> EmptyDict]

\* a 0-dimensional value
Scalar(v) == Array(<<>>, [idx \in {<<>>} |-> v])

\* mutant: the flat sequence is reshaped with the first axis varying
\* fastest (order='F')
init_arrays_of_column_major(var, prange, default, given, is_grounded) ==
    LET types == tensor_param_types[var]
        names == grounded(var)
        sh    == shape(types)
        rev(q) == [j \in 1..Len(q) |-> q[Len(q) + 1 - j]]
    IN  IF types # <<>>
        THEN IF is_grounded
             THEN [name \in {names[k] : k \in 1..Len(names)} |->
                      Scalar(dtype(prange, get_or(given, name, default)))]
             ELSE [name \in {GroundedName(var, <<>>)} |->
                      Array(sh,
                            [idx \in Indices(sh) |->
                                dtype(prange,
                                      get_or(given,
                                             names[ravel_index(rev(idx), rev(sh)) + 1],
                                             default))])]
        ELSE [name \in {GroundedName(var, <<>>)} |->
                 Scalar(dtype(prange,
                              get_or(given, GroundedName(var, <<>>), default)))]

\* the entries of init_arrays made for var: the array under the name of
\* the variable, or one scalar per grounded name when the model is grounded
init_arrays_of(var, prange, default, given, is_grounded) ==
    LET types == tensor_param_types[var]
        names == grounded(var)
    IN  IF types # <<>>
        THEN IF is_grounded
             THEN [name \in {names[k] : k \in 1..Len(names)} |->
                      Scalar(dtype(prange, get_or(given, name, default)))]
             ELSE [name \in {GroundedName(var, <<>>)} |->
                      Array(shape(types),
                            [idx \in Indices(shape(types)) |->
                                dtype(prange,
                                      get_or(given,
                                             names[ravel_index(idx, shape(types)) + 1],
                                             default))])]
        ELSE [name \in {GroundedName(var, <<>>)} |->
                 Scalar(dtype(prange,
                              get_or(given, GroundedName(var, <<>>), default)))]

\* the values held by the arrays a
Held(a) == {a.at[idx] : idx \in DOMAIN a.at}

\* _compile_init_values() for the declared values declared0 (nonfluents,
\* init_state and actions merged), the ranges variable_ranges and the index
\* table index
_compile_init_values(index, declared0, variable_ranges, is_grounded) ==
    LET given == [name \in {n \in DOMAIN declared0 : declared0[n] # PyNone}
                            |-> declared0[name]]
        enum_named  == {name \in DOMAIN given :
                           variable_ranges[parse_var(name)] \in enum_types}
    IN  IF \E name \in enum_named :
              objects_rev_get(given[name]) # variable_ranges[parse_var(name)]
        THEN BuildRaise("RDDLInvalidObjectError", "does not belong to enum")
        ELSE
        LET converted ==
                [name \in DOMAIN given |->
                    IF name \in enum_named
                    THEN PyInt(index[given[name].s])
                    ELSE given[name]]
            known(prange) == prange \in DOMAIN DEFAULT_VALUES \/ prange \in enum_types
        IN  IF \E var \in DOMAIN variable_ranges : ~known(variable_ranges[var])
            THEN BuildRaise("RDDLTypeError", "is not valid")
            ELSE
            LET entries(var) ==
                    LET prange0 == variable_ranges[var]
                        prange  == IF prange0 \in enum_types THEN "int" ELSE prange0
                    IN  init_arrays_of(var, prange, DEFAULT_VALUES[prange],
                                       converted, is_grounded)
                all == [var \in DOMAIN variable_ranges |-> entries(var)]
                keys == UNION {DOMAIN all[var] : var \in DOMAIN variable_ranges}
                init_arrays ==
                    [name \in keys |-> all[parse_var(name)][name]]
            IN  IF \E name \in keys :
                      \E v \in Held(init_arrays[name]) : v.t = "ValueError"
                THEN BuildRaise("ValueError", "invalid literal")
                ELSE [exc |-> NoMapExc, init_arrays |-> init_arrays]

\* ------------------------------------------------------------------ inputs
Invocation(var, obj_in, sign_out, literals) ==
    [var |-> var, obj_in |-> obj_in, sign_out |-> sign_out,
     literals |-> literals]

\* invocations the expression compiler makes: pass-through, transposes,
\* a diagonal, broadcasts, a literal-bound position, and malformed ones
MapInputs ==
    { Invocation("adj", <<"?x", "?y">>, << <<"?x", "zone">>, <<"?y", "zone">> >>, {}),
      Invocation("adj", <<"?x", "?y">>, << <<"?y", "zone">>, <<"?x", "zone">> >>, {}),
      Invocation("adj", <<"?y", "?x">>, << <<"?x", "zone">>, <<"?y", "zone">> >>, {}),
      Invocation("adj", <<"?x", "?x">>, << <<"?x", "zone">> >>, {}),
      Invocation("adj", <<"h1", "?y">>, << <<"?y", "zone">> >>, {0}),
      Invocation("temp", <<>>, << <<"?x", "zone">> >>, {}),
      Invocation("temp", <<>>, << <<"?x", "heater">> >>, {}),
      Invocation("temp", <<>>, <<>>, {}),
      Invocation("adj", <<"?x">>, << <<"?x", "zone">> >>, {}),
      Invocation("adj", <<"?x", "?y">>, << <<"?x", "zone">> >>, {}),
      Invocation("adj", <<"?x", "?y">>, << <<"?x", "heater">>, <<"?y", "zone">> >>, {}) }

\* the libraries passed as gnp
Libraries == {"numpy", "jax.numpy"}

\* ----------------------------------------------------------------- actions
SimIdle ==
    /\ pomdp_model = FALSE
    /\ nterm = 0
    /\ ctor_raise_error = "default"
    /\ raise_error = DefaultRaiseError
    /\ subs = init_values
    /\ key = 0
    /\ state = StateNone
    /\ last = [op |-> "init", actions |-> EmptyDict, subs |-> init_values,
               key |-> key, state |-> StateNone,
               out |-> Machine(init_values, key, StateNone)]
    /\ ncalls = 0

InitCache == SimIdle /\ TwinIdle /\ TensorIdle /\ RestIdle

MapCall ==
    /\ Len(map_calls) < MaxMapCalls
    /\ \E inv \in MapInputs, gnp \in Libraries :
          LET r == map(cached_transforms, allocated, inv.var, inv.obj_in,
                       inv.sign_out, inv.literals, gnp)
          IN  /\ cached_transforms' = r.cache
              /\ allocated' = r.allocated
              /\ map_calls' = Append(map_calls,
                    [args |-> inv, gnp |-> gnp, exc |-> r.exc, fn |-> r.fn,
                     entries |-> Cardinality(DOMAIN r.cache)])
    /\ UNCHANGED <<simvars, twinvars, restvars>>

NextCache == MapCall

SpecCache == InitCache /\ [][NextCache]_vars

\* ------------------------------------------------ callers inside map at once
\* map is two steps for a caller that shares the instance with others: it
\* reads the cache (self._cached_transforms.get), and later, having seen
\* None, it stores the closure it made
Callers == {"A", "B", "C"}

ConcInputs ==
    { Invocation("adj", <<"?x", "?y">>, << <<"?x", "zone">>, <<"?y", "zone">> >>, {}),
      Invocation("adj", <<"?x", "?y">>, << <<"?y", "zone">>, <<"?x", "zone">> >>, {}),
      Invocation("adj", <<"?y", "?x">>, << <<"?x", "zone">>, <<"?y", "zone">> >>, {}),
      Invocation("adj", <<"?x", "?y">>, << <<"?x", "zone">> >>, {}) }

Outside == [pc |-> "outside"]

InitConc ==
    /\ SimIdle /\ TwinIdle /\ TensorIdle /\ ObjectsIdle /\ CallIdle
    /\ threads = [c \in Callers |-> Outside]

\* caller c enters map and runs it up to and including the cache read
MapLookup(c) ==
    /\ threads[c].pc = "outside"
    /\ \E inv \in ConcInputs, gnp \in Libraries :
          LET p == map_prepare(inv.var, inv.obj_in, inv.sign_out, inv.literals)
          IN  threads' = [threads EXCEPT ![c] =
                  IF p.exc # NoMapExc
                  THEN [pc |-> "returned", args |-> inv, gnp |-> gnp,
                        exc |-> p.exc, fn |-> NoTransform]
                  ELSE [pc |-> "read", args |-> inv, gnp |-> gnp, p |-> p,
                        seen |-> cached_transforms_get(cached_transforms, p.tid)]]
    /\ UNCHANGED <<simvars, twinvars, tensorvars, objvars, callvars>>

\* caller c runs the rest of map: on None it creates the closure and
\* assigns it to the key, and it returns the closure it holds
MapStore(c) ==
    /\ threads[c].pc = "read"
    /\ LET th   == threads[c]
           made == new_transform(th.p, th.gnp, allocated + 1)
           miss == th.seen = NoTransform
       IN  /\ cached_transforms' =
                 IF miss
                 THEN DictUpdate(cached_transforms, [k \in {th.p.tid} |-> made])
                 ELSE cached_transforms
           /\ allocated' = IF miss THEN allocated + 1 ELSE allocated
           /\ threads' = [threads EXCEPT ![c] =
                 [pc |-> "returned", args |-> th.args, gnp |-> th.gnp,
                  exc |-> NoMapExc, fn |-> IF miss THEN made ELSE th.seen]]
    /\ UNCHANGED <<simvars, twinvars, map_calls, objvars, callvars>>

NextConc == \E c \in Callers : MapLookup(c) \/ MapStore(c)

SpecConc == InitConc /\ [][NextConc]_vars

\* ------------------------------------------- one call on a fresh instance
\* all sequences over S of length at most n
SeqsUpTo(S, n) == UNION {[1..k -> S] : k \in 0..n}

\* names written at the positions of an invocation
Labels == {"?x", "?y", "h1"}

\* the labels and Types of output signatures
SignLabels == {"?x", "?y"}

\* the array the transform is given: the stored array of var with its
\* literal-bound axes fixed, holding base, base + 1, ... in row-major order
sliced_shape(var, literals) ==
    shape(drop_literals(param_types_get(var), literals, 0))

iota(sh, base) ==
    Array(sh, [idx \in Indices(sh) |-> base + ravel_index(idx, sh)])

\* an output signature with more entries than there are symbols
LongSign == [j \in 1..(NumValidSymbols + 1) |-> <<"?x", "heater">>]

\* the pvariables asked about: the declared ones and an undeclared name
CallVars == DOMAIN tensor_param_types \cup {"bogus"}

\* map(var, obj_in, sign_out, literals) followed by a call of the
\* transform it returned
MapCalls ==
    { [op |-> "map", var |-> var, obj_in |-> obj_in, sign_out |-> sign_out,
       literals |-> literals, base |-> base] :
        var \in CallVars,
        obj_in \in SeqsUpTo(Labels, MaxParams) \cup {NoneParams},
        sign_out \in SeqsUpTo(SignLabels \X DOMAIN objects, MaxSignLen)
                        \cup {LongSign},
        literals \in SUBSET {0, 1},
        base \in 0..1 }

\* names written at the positions of a literal_slice invocation
SliceParams == Labels \cup {"h2", "z1"}

\* literal_slice(var, pvars) followed by indexing the stored array of var
SliceCalls ==
    { [op |-> "literal_slice", var |-> var, pvars |-> pvars, base |-> base] :
        var \in CallVars,
        pvars \in SeqsUpTo(SliceParams, MaxParams) \cup {NoneParams},
        base \in 0..1 }

\* the shapes of the arrays given to expand
ExpandShapes ==
    {<<>>, <<1>>, <<2>>, <<3>>, <<6>>, <<9>>, <<1, 1>>, <<2, 3>>, <<3, 2>>,
     <<3, 3>>, <<2, 2>>}

\* expand(var, values)
ExpandCalls ==
    { [op |-> "expand", var |-> var, shape |-> sh, base |-> base] :
        var \in CallVars, sh \in ExpandShapes, base \in 0..1 }

\* what the model declares for the enum-ranged setting(?z): nothing, a
\* literal of its enum Type, or an object of another Type; and for temp:
\* nothing, None or a number
DeclaredValues ==
    { [name \in {GroundedName("setting", <<objects["zone"][i]>>) : i \in zs}
            \cup tn |->
          IF parse_var(name) = "temp" THEN tv
          ELSE lit[CHOOSE i \in zs : name[2] = <<objects["zone"][i]>>]] :
        zs \in SUBSET (1..Len(objects["zone"])),
        lit \in [1..Len(objects["zone"]) -> {PyStr("h1"), PyStr("h2")}],
        tn \in SUBSET {GroundedName("temp", <<>>)},
        tv \in {PyNone, PyReal(2)} }
    \cup
    { [name \in {GroundedName("setting", <<"z2">>)} |-> v] :
        v \in {PyStr("z1"), PyInt(1)} }

\* what the model may declare for the bool-ranged occ(?h, ?z) and the
\* int-ranged adj(?z1, ?z2)
ArrayDeclared ==
    [name \in {GroundedName("occ", <<"h1", "z2">>),
               GroundedName("occ", <<"h2", "z1">>),
               GroundedName("adj", <<"z3", "z1">>)} |->
        IF parse_var(name) = "occ" THEN PyBool(TRUE) ELSE PyInt(1)]

\* construction from a model followed by expand of the enum-ranged setting
BuildCalls ==
    { [op |-> "build", declared |-> DictUpdate(d, [name \in ns |-> ArrayDeclared[name]]),
       variable_ranges |-> vr, is_grounded |-> g] :
        d \in DeclaredValues, ns \in SUBSET (DOMAIN ArrayDeclared),
        vr \in {variable_ranges_valid, variable_ranges_invalid},
        g \in BOOLEAN }

CallInputs == MapCalls \cup SliceCalls \cup ExpandCalls \cup BuildCalls

InitCall ==
    /\ SimIdle /\ TwinIdle /\ TensorIdle /\ ThreadsIdle
    /\ universe = objects_items
    /\ index_of_object = _compile_objects(universe)
    /\ tin \in CallInputs
    /\ tout = NoCall

DoMap ==
    /\ tin.op = "map" /\ tout = NoCall
    /\ LET r == map(cached_transforms, allocated, tin.var, tin.obj_in,
                    tin.sign_out, tin.literals, "numpy")
       IN  /\ cached_transforms' = r.cache
           /\ allocated' = r.allocated
           /\ tout' = [op |-> "map", exc |-> r.exc, fn |-> r.fn,
                       value |-> IF r.exc = NoMapExc
                                 THEN apply_transform(r.fn,
                                        iota(sliced_shape(tin.var, tin.literals),
                                             tin.base))
                                 ELSE NoArray]
    /\ UNCHANGED <<simvars, twinvars, map_calls, objvars, tin, threads>>

DoLiteralSlice ==
    /\ tin.op = "literal_slice" /\ tout = NoCall
    /\ LET r == literal_slice(index_of_object, tin.var, tin.pvars)
       IN  tout' = [op |-> "literal_slice", exc |-> r.exc,
                    slices |-> r.slices, literals |-> r.literals,
                    value |-> IF r.exc = NoMapExc
                              THEN index_array(
                                     iota(shape(param_types_get(tin.var)), tin.base),
                                     r.slices)
                              ELSE NoArray]
    /\ UNCHANGED <<simvars, twinvars, tensorvars, objvars, tin, threads>>

DoExpand ==
    /\ tin.op = "expand" /\ tout = NoCall
    /\ LET r == expand(tin.var, iota(tin.shape, tin.base))
       IN  tout' = [op |-> "expand", exc |-> r.exc, pairs |-> r.pairs]
    /\ UNCHANGED <<simvars, twinvars, tensorvars, objvars, tin, threads>>

\* the stored array of var in init_arrays, when the model is not grounded
stored(init_arrays, var) == init_arrays[GroundedName(var, <<>>)]

DoBuild ==
    /\ tin.op = "build" /\ tout = NoCall
    /\ LET r == _compile_init_values(index_of_object, tin.declared,
                                     tin.variable_ranges, tin.is_grounded)
           e == IF r.exc = NoMapExc /\ ~tin.is_grounded
                THEN expand("setting", stored(r.init_arrays, "setting"))
                ELSE [exc |-> NoMapExc, pairs |-> NoPairs]
       IN  tout' = [op |-> "build", exc |-> r.exc,
                    init_values |-> r.init_arrays,
                    expand_exc |-> e.exc, pairs |-> e.pairs]
    /\ UNCHANGED <<simvars, twinvars, tensorvars, objvars, tin, threads>>

NextCall == DoMap \/ DoLiteralSlice \/ DoExpand \/ DoBuild

SpecCall == InitCall /\ [][NextCall]_vars

\* --------------------------------------------- index lookups on a universe
\* coordinates(objects) on an instance whose index table is index
coordinates(index, objs) ==
    IF \A k \in 1..Len(objs) : objs[k] \in DOMAIN index
    THEN [exc |-> NoMapExc, ret |-> [k \in 1..Len(objs) |-> index[objs[k]]]]
    ELSE [exc |-> [type |-> "RDDLInvalidObjectError", msg |-> "is not valid"],
          ret |-> <<>>]

\* instance names, and the ordered instance lists a Type may declare
ObjectNames == {"o1", "o2", "o3"}

InstanceLists ==
    {l \in SeqsUpTo(ObjectNames, Cardinality(ObjectNames)) :
        /\ l # <<>>
        /\ \A i, j \in 1..Len(l) : l[i] = l[j] => i = j}

\* the universes of two object Types
Universes ==
    { << <<"zone", zs>>, <<"room", rs>> >> : zs, rs \in InstanceLists }

\* the lookups a caller makes: the instances, and the Type it means each
\* of them to be of
LookupCalls ==
    UNION { { [op |-> "coordinates", types |-> ts, objects |-> os] :
                ts \in [1..n -> {"zone", "room"}],
                os \in [1..n -> ObjectNames \cup {"o9"}] } :
            n \in 0..MaxParams }

InitObjects ==
    /\ SimIdle /\ TwinIdle /\ TensorIdle /\ ThreadsIdle
    /\ universe \in Universes
    /\ index_of_object = _compile_objects(universe)
    /\ tin \in LookupCalls
    /\ tout = NoCall

DoCoordinates ==
    /\ tin.op = "coordinates" /\ tout = NoCall
    /\ LET r == coordinates(index_of_object, tin.objects)
       IN  tout' = [op |-> "coordinates", exc |-> r.exc, ret |-> r.ret]
    /\ UNCHANGED <<simvars, twinvars, tensorvars, objvars, tin, threads>>

NextObjects == DoCoordinates

SpecObjects == InitObjects /\ [][NextObjects]_vars

\* ======================================================= simulator claims
\* the exception classes behind the names the claims use
EvaluationError == "RDDLInvalidExpressionError"
StateInvariantViolation == "RDDLStateInvariantNotSatisfiedError"
ActionPreconditionViolation == "RDDLActionPreconditionNotSatisfiedError"
UnknownActionError == "RDDLInvalidActionError"

\* the key after n compiled-function calls
RECURSIVE SplitN(_, _)
SplitN(k, n) == IF n = 0 THEN k ELSE SplitN(split(k), n - 1)

Trace == last.out.trace
Raised == last.out.exc
CpfCalls == SelectSeq(Trace, LAMBDA c : c.kind = "cpf")

\* the value the CPF of pvariable name produced in the last call
TraceValue(name) ==
    Trace[CHOOSE j \in 1..Len(Trace) :
              Trace[j].kind = "cpf" /\ Trace[j].name = name].value

\* position of the Level that holds a CPF
LevelOf(name) == CHOOSE l \in 1..Len(levels) :
                     \E j \in 1..Len(levels[l]) : levels[l][j] = name

\* C1: if check_action_preconditions raises ActionPreconditionViolation,
\* every entry of the store has the value it had before the call.
C1_StoreUnchangedOnViolation ==
    (last.op = "check_action_preconditions"
        /\ Raised.type = ActionPreconditionViolation)
    => subs = last.subs

\* C2: in step the Levels are evaluated in their order and every output is
\* in the store before a later Level is evaluated: b, whose function reads
\* a, is evaluated after a, on the value a produced in this same step.
C2_LevelsInOrder ==
    last.op = "step" =>
        /\ \A i, j \in 1..Len(CpfCalls) :
              i < j => LevelOf(CpfCalls[i].name) <= LevelOf(CpfCalls[j].name)
        /\ \A j \in 1..Len(CpfCalls) :
              CpfCalls[j].name = "b" =>
                 \E i \in 1..(j - 1) :
                    /\ CpfCalls[i].name = "a"
                    /\ CpfCalls[j].value =
                          cpfs("b", [last.subs EXCEPT !["a"] = CpfCalls[i].value],
                               last.key).value

\* a step in which b was evaluated and a stale a would have shown
C2_Witness ==
    /\ last.op = "step"
    /\ \E j \in 1..Len(CpfCalls) :
          /\ CpfCalls[j].name = "b"
          /\ CpfCalls[j].value # cpfs("b", last.subs, last.key).value

\* grounded names of the state-fluents
StateGroundedNames ==
    UNION {DOMAIN ground_values(next_states[n][2], init_values[next_states[n][2]]) :
              n \in 1..Len(next_states)}

NextStateOf(st) ==
    next_states[CHOOSE n \in 1..Len(next_states) : next_states[n][2] = st][1]

\* C4: after step returns normally every state-fluent slot holds the value
\* computed for its next-state pvariable in this step, and self.state is
\* exactly the grounded expansion of those values.
C4_StateAdvanced ==
    (last.op = "step" /\ Raised = NoExc) =>
        /\ \A n \in 1..Len(next_states) :
              subs[next_states[n][2]] = TraceValue(next_states[n][1])
        /\ state.tag = "dict"
        /\ DOMAIN state.items = StateGroundedNames
        /\ \A g \in StateGroundedNames :
              state.items[g] =
                 ground_values(g[1], TraceValue(NextStateOf(g[1])))[g]

\* a second step that returned normally and changed the visible state
C4_Witness ==
    /\ last.op = "step" /\ Raised = NoExc
    /\ last.state.tag = "dict"
    /\ state # last.state
    /\ \E n \in 1..Len(next_states) :
          last.subs[next_states[n][2]] # subs[next_states[n][2]]

\* C5: the observation step returns is the expansion of the observ-fluents
\* in the store after this step's CPFs when one is declared, with no
\* state-fluent entry, and the full next state otherwise.
C5_Observation ==
    (last.op = "step" /\ Raised = NoExc) =>
        LET obs == last.out.ret.obs
        IN  IF pomdp_model
            THEN /\ obs = ground_values("o", TraceValue("o"))
                 /\ subs["o"] = TraceValue("o")
                 /\ \A g \in DOMAIN obs :
                       variable_types[g[1]] = "observ-fluent"
            ELSE /\ state.tag = "dict" /\ obs = state.items
                 /\ DOMAIN obs = StateGroundedNames

\* a step of a model with an observ-fluent returned an observation
C5_Witness ==
    /\ last.op = "step" /\ Raised = NoExc
    /\ pomdp_model
    /\ last.out.ret.obs # ground_values("o", last.subs["o"])

\* what invariant i returned in the last call of check_state_invariants
InvR(i) == invariants(i, last.subs, SplitN(last.key, i - 1))
InvRaises(i) == raise_error /\ InvR(i).error # 0
InvStops(i) == InvRaises(i) \/ ~InvR(i).value
FirstIn(S) == CHOOSE i \in S : \A j \in S : i <= j

\* C6 as stated: the first invariant that returns false raises
\* StateInvariantViolation with its index, none after it is evaluated, and
\* the call returns without raising if all return true.
C6_FirstFalseRaises ==
    last.op = "check_state_invariants" =>
        LET F == {i \in 1..NumInvariants : ~InvR(i).value}
        IN  IF F # {}
            THEN /\ Raised = Exc(StateInvariantViolation, FirstIn(F))
                 /\ Len(Trace) = FirstIn(F)
            ELSE Raised = NoExc /\ Len(Trace) = NumInvariants

\* C6 amended: the invariants are evaluated in declaration order up to the
\* first that returns false or, with raise_error set, reports an error
\* code; that one raises EvaluationError if it reported an error code with
\* raise_error set, StateInvariantViolation with its index otherwise.
C6_FirstStopRaises ==
    last.op = "check_state_invariants" =>
        LET S == {i \in 1..NumInvariants : InvStops(i)}
        IN  /\ \A j \in 1..Len(Trace) :
                  Trace[j].kind = "invariant" /\ Trace[j].name = j
            /\ subs = last.subs
            /\ IF S # {}
               THEN /\ Len(Trace) = FirstIn(S)
                    /\ Raised = IF InvRaises(FirstIn(S))
                                THEN Exc(EvaluationError, FirstIn(S))
                                ELSE Exc(StateInvariantViolation, FirstIn(S))
               ELSE Raised = NoExc /\ Len(Trace) = NumInvariants

\* the first invariant failed and the second, which would fail too, was
\* not evaluated
C6_Witness ==
    /\ last.op = "check_state_invariants"
    /\ Raised = Exc(StateInvariantViolation, 1)
    /\ ~InvR(2).value
    /\ Len(Trace) = 1

\* what termination function i returned in the last check_terminal_states
TermR(i) == terminals(i, last.subs, SplitN(last.key, i - 1))
TermRaises(i) == raise_error /\ TermR(i).error # 0
TermStops(i) == TermRaises(i) \/ TermR(i).value

\* C7 as stated: returns true as soon as one termination function is
\* satisfied, later ones not being evaluated, and false iff none is.
C7_TrueOnFirstSatisfied ==
    last.op = "check_terminal_states" =>
        LET T == {i \in 1..nterm : TermR(i).value}
        IN  /\ Raised = NoExc
            /\ last.out.ret = [kind |-> "bool", value |-> T # {}]
            /\ Len(Trace) = IF T # {} THEN FirstIn(T) ELSE nterm

\* C7 amended: the termination functions are evaluated in declaration order
\* up to the first that is satisfied or, with raise_error set, reports an
\* error code; the call raises EvaluationError if that one reported an
\* error code with raise_error set, returns true if it did not, and returns
\* false if no function stopped the loop.
C7_TrueOnFirstStop ==
    last.op = "check_terminal_states" =>
        LET S == {i \in 1..nterm : TermStops(i)}
        IN  /\ \A j \in 1..Len(Trace) :
                  Trace[j].kind = "termination" /\ Trace[j].name = j
            /\ IF S # {}
               THEN /\ Len(Trace) = FirstIn(S)
                    /\ IF TermRaises(FirstIn(S))
                       THEN Raised = Exc(EvaluationError, FirstIn(S))
                       ELSE /\ Raised = NoExc
                            /\ last.out.ret = [kind |-> "bool", value |-> TRUE]
               ELSE /\ Raised = NoExc
                    /\ Len(Trace) = nterm
                    /\ last.out.ret = [kind |-> "bool", value |-> FALSE]

\* the first termination function was satisfied and the second, satisfied
\* too, was not evaluated
C7_Witness ==
    /\ last.op = "check_terminal_states"
    /\ nterm = 2
    /\ last.out.ret = [kind |-> "bool", value |-> TRUE]
    /\ TermR(2).value
    /\ Len(Trace) = 1

\* C8: a simulator constructed without selecting the relaxed mode raises
\* EvaluationError whenever a compiled function reports a non-zero error
\* code.
C8_DefaultRaises ==
    (ctor_raise_error = "default"
        /\ \E j \in 1..Len(Trace) : Trace[j].error # 0)
    => Raised.type = EvaluationError

\* C9: a call of step or check_action_preconditions rejected with
\* UnknownActionError has modified no store entry and evaluated no compiled
\* function.
C9_RejectedBeforeMerge ==
    Raised.type = UnknownActionError =>
        /\ subs = last.subs
        /\ key = last.key
        /\ state = last.state
        /\ Trace = <<>>

\* a rejected call that also carried a declared action differing from the
\* store's
C9_Witness ==
    /\ last.op = "check_action_preconditions"
    /\ Raised.type = UnknownActionError
    /\ "act" \in DOMAIN last.actions
    /\ last.actions["act"] # last.subs["act"]

\* ====================================================== determinism claim
SameActions(n) == \A j \in 1..n : runA[j].actions = runB[j].actions
ShorterRun == IF Len(runA) <= Len(runB) THEN Len(runA) ELSE Len(runB)

\* the store the CPFs of the last step started from
MergedStore == DictUpdate(last.subs, _process_actions(last.actions).actions)

\* C3: two simulators built from the same model and key and fed the same
\* step calls return the same outcome at every step, and the only
\* randomness is the threaded key: every compiled function call of a step
\* consumes the key the previous call returned and replaces it.
C3_Determinism ==
    /\ \A n \in 1..ShorterRun :
          SameActions(n) =>
             /\ runA[n].ret = runB[n].ret
             /\ runA[n].exc = runB[n].exc
    /\ (Len(runA) = Len(runB) /\ SameActions(Len(runA))) =>
          /\ twin.key = key
          /\ twin.subs = subs
          /\ twin.state = state
    /\ last.op = "step" =>
          /\ key = SplitN(last.key, Len(Trace))
          /\ \A j \in 1..Len(Trace) :
                (Trace[j].kind = "cpf" /\ Trace[j].name = "t'") =>
                   Trace[j].value =
                      cpfs("t'", MergedStore, SplitN(last.key, j - 1)).value

\* both simulators made the same two steps, the other one first, and the
\* second step's observation depended on the key
C3_Witness ==
    /\ Len(runA) = MaxRunLen /\ Len(runB) = MaxRunLen
    /\ SameActions(MaxRunLen)
    /\ last.op = "step" /\ Raised = NoExc
    /\ runB[MaxRunLen].ret = last.out.ret
    /\ runA[1].exc = NoExc
    /\ last.out.ret.obs # runA[1].ret.obs
    /\ \E j \in 1..Len(Trace) :
          /\ Trace[j].kind = "cpf" /\ Trace[j].name = "t'"
          /\ Trace[j].value # cpfs("t'", MergedStore, last.key).value

\* ================================================== tensor cache claims
\* number of cache entries before call j
EntriesBefore(j) == IF j = 1 THEN 0 ELSE map_calls[j - 1].entries

\* C10: in any sequence of map calls on one instance, two calls with the
\* same pvariable, invocation labels, output signature and literal
\* positions return the same transform object, and the second call creates
\* no cache entry.
C10_CacheIdempotent ==
    \A i, j \in 1..Len(map_calls) :
        (i < j /\ map_calls[i].args = map_calls[j].args
               /\ map_calls[i].exc = NoMapExc) =>
            /\ map_calls[j].exc = NoMapExc
            /\ map_calls[j].fn = map_calls[i].fn
            /\ map_calls[j].fn.id = map_calls[i].fn.id
            /\ map_calls[j].entries = EntriesBefore(j)

\* the same invocation was made before and after one that created another
\* transform
C10_Witness ==
    /\ Len(map_calls) = 3
    /\ map_calls[1].args = map_calls[3].args
    /\ map_calls[1].exc = NoMapExc
    /\ map_calls[1].fn.use_tr
    /\ map_calls[2].exc = NoMapExc
    /\ map_calls[2].entries = map_calls[1].entries + 1

\* C11: with callers inside map at the same time, an entry of the cache is
\* never replaced or removed once it exists: whoever stored a transform
\* under a key first keeps it there, and every later read of the key gives
\* that transform.
C11_FirstWriterWins ==
    [][\A k \in DOMAIN cached_transforms :
          /\ k \in DOMAIN cached_transforms'
          /\ cached_transforms'[k] = cached_transforms[k]]_vars

\* ============================================== alignment and slicing claims
\* the labels and declared Types of the positions of the invocation that
\* are not literal-bound
FreeLabels == drop_literals(or_empty(tin.obj_in), tin.literals, 0)
FreeTypes == drop_literals(param_types_get(tin.var), tin.literals, 0)

\* the output positions (from 1) carrying the label of free position k
Carrying(k) ==
    {j \in 1..Len(tin.sign_out) : tin.sign_out[j][1] = FreeLabels[k]}

\* map returned a transform for an invocation whose free labels are
\* pairwise distinct and all occur in the output signature
AlignCase ==
    /\ tout.op = "map" /\ tout.exc = NoMapExc
    /\ \A k1, k2 \in 1..Len(FreeLabels) :
          FreeLabels[k1] = FreeLabels[k2] => k1 = k2
    /\ \A k \in 1..Len(FreeLabels) : Carrying(k) # {}

\* the array the transform gave has one axis per output entry, each of the
\* size of its Type, and holds at o the stored value at the input index
\* that o's labels spell
Aligned ==
    LET n  == Len(tin.sign_out)
        sh == [j \in 1..n |-> Len(objects[tin.sign_out[j][2]])]
        in_sh == [k \in 1..Len(FreeTypes) |-> Len(objects[FreeTypes[k]])]
    IN  /\ tout.value.ok
        /\ tout.value.shape = sh
        /\ \A o \in Indices(sh) :
              LET i == [k \in 1..Len(FreeLabels) |->
                          o[CHOOSE j \in Carrying(k) : TRUE]]
              IN  tout.value.at[o] = tin.base + ravel_index(i, in_sh)

ArityError ==
    [type |-> "RDDLInvalidNumberOfArgumentsError", msg |-> "requires parameters"]
UnresolvedParameterError ==
    [type |-> "RDDLInvalidNumberOfArgumentsError", msg |-> "unresolved parameter(s)"]
SignatureTypeMismatchError ==
    [type |-> "RDDLInvalidObjectError", msg |-> "expects type"]

\* the parameter list of the invocation, its length (a missing list counts
\* as none) and the declared parameter Types
GivenParams == IF tin.op = "map" THEN tin.obj_in ELSE tin.pvars
GivenCount == IF GivenParams = NoneParams THEN 0 ELSE Len(GivenParams)
DeclaredTypes ==
    IF tin.var \in DOMAIN tensor_param_types THEN tensor_param_types[tin.var]
    ELSE <<>>
AlignmentCall == tout.op \in {"map", "literal_slice"}

\* C13: map and literal_slice raise ArityError whenever the number of
\* invocation parameters differs from the declared parameter count (no list
\* counting as zero parameters), whatever else is wrong with the
\* invocation, and no cache entry has been created.
C13_ArityFirst ==
    (AlignmentCall /\ GivenCount # Len(DeclaredTypes)) =>
        /\ tout.exc = ArityError
        /\ cached_transforms = EmptyDict
        /\ allocated = 0

\* adj invoked with one parameter whose label also meets a wrong Type in
\* the output signature: the arity is what is reported
C13_Witness ==
    /\ tout.op = "map"
    /\ tin.var = "adj"
    /\ tin.obj_in = <<"?x">>
    /\ tin.sign_out = << <<"?x", "heater">> >>
    /\ tin.literals = {}
    /\ tout.exc = ArityError

\* the positions (from 1) of the invocation that have a declared Type
Positions ==
    1..(IF GivenCount <= Len(DeclaredTypes) THEN GivenCount
        ELSE Len(DeclaredTypes))

\* a free label of the map invocation occurs in the output signature with
\* a Type other than the one declared at its position
MapTypeDisagrees ==
    /\ tout.op = "map"
    /\ \E k \in Positions, j \in 1..Len(tin.sign_out) :
          /\ (k - 1) \notin tin.literals
          /\ tin.sign_out[j][1] = tin.obj_in[k]
          /\ tin.sign_out[j][2] # DeclaredTypes[k]

\* an enum literal is passed to literal_slice at a position declared with
\* another Type
SliceTypeDisagrees ==
    /\ tout.op = "literal_slice"
    /\ \E k \in Positions :
          /\ tin.pvars[k] \in enum_literals
          /\ DeclaredTypes[k] # objects_rev(tin.pvars[k])

\* the call raised SignatureTypeMismatchError and returned nothing
TypeMismatchRaised ==
    /\ tout.exc = SignatureTypeMismatchError
    /\ tout.op = "map" => tout.fn = NoTransform
    /\ tout.op = "literal_slice" => tout.slices = NoSlices /\ tout.literals = {}

\* C14 as stated: map fails with SignatureTypeMismatchError whenever an
\* output label matches a free label with another Type than declared, and
\* literal_slice whenever an enum literal sits at a position declared with
\* another Type; nothing is returned.
C14_MismatchRaises ==
    (MapTypeDisagrees \/ SliceTypeDisagrees) => TypeMismatchRaised

\* C14, amended: the same for invocations that pass the checks made
\* earlier: as many parameters as declared and, for map, an output
\* signature of at most as many entries as there are symbols.
C14_MismatchRaisesAfterArity ==
    (/\ MapTypeDisagrees \/ SliceTypeDisagrees
     /\ GivenCount = Len(DeclaredTypes)
     /\ tout.op = "map" => Len(tin.sign_out) <= NumValidSymbols)
        => TypeMismatchRaised

\* adj(?x, ?y) asked for with ?x as a heater, and with ?y missing from the
\* output signature as well
C14_Witness ==
    /\ tout.op = "map"
    /\ tin.var = "adj"
    /\ tin.obj_in = <<"?x", "?y">>
    /\ tin.sign_out = << <<"?x", "heater">> >>
    /\ tin.literals = {}
    /\ TypeMismatchRaised

\* some position of the map invocation that is not literal-bound carries
\* a label that no entry of the output signature carries
SomeLabelUnmatched ==
    \E k \in 1..GivenCount :
        /\ (k - 1) \notin tin.literals
        /\ \A j \in 1..Len(tin.sign_out) : tin.sign_out[j][1] # tin.obj_in[k]

NothingReturnedOrCached ==
    tout.fn = NoTransform /\ cached_transforms = EmptyDict /\ allocated = 0

\* C15 as stated: map fails with UnresolvedParameterError exactly when
\* some free label of the invocation matches no label of the output
\* signature, and then no transform is returned or cached.
C15_UnresolvedIffUnmatched ==
    tout.op = "map" =>
        /\ tout.exc = UnresolvedParameterError <=> SomeLabelUnmatched
        /\ SomeLabelUnmatched => NothingReturnedOrCached

\* C15, amended: map fails with UnresolvedParameterError exactly when the
\* invocation passes the checks made earlier (arity, length of the output
\* signature, Type agreement of the matched labels) and some free label
\* matches no label of the output signature; whenever a free label is
\* unmatched no transform is returned or cached.
C15_UnresolvedIffUnmatchedAfterChecks ==
    tout.op = "map" =>
        /\ tout.exc = UnresolvedParameterError <=>
              /\ SomeLabelUnmatched
              /\ GivenCount = Len(DeclaredTypes)
              /\ Len(tin.sign_out) <= NumValidSymbols
              /\ ~MapTypeDisagrees
        /\ SomeLabelUnmatched => NothingReturnedOrCached

\* adj(h1, ?y) with its first position literal-bound, aligned to a
\* signature that only carries ?x
C15_Witness ==
    /\ tout.op = "map"
    /\ tin.var = "adj"
    /\ tin.obj_in = <<"h1", "?y">>
    /\ tin.literals = {0}
    /\ tin.sign_out = << <<"?x", "zone">> >>
    /\ tout.exc = UnresolvedParameterError
    /\ NothingReturnedOrCached

\* the position (from 0) of a literal in the instance list of its enum
\* Type
IndexInType(lit) ==
    (CHOOSE i \in 1..Len(objects[objects_rev(lit)]) :
        objects[objects_rev(lit)][i] = lit) - 1

\* the positions (from 1) of the literal_slice invocation holding an enum
\* literal
LiteralPositions == {k \in 1..GivenCount : tin.pvars[k] \in enum_literals}

\* C16: what literal_slice returns is one selector per declared parameter
\* position, the literal's index within its enum Type where the invocation
\* holds an enum literal and 'select all' elsewhere, with exactly the set
\* of literal positions; indexing the stored array with the selectors
\* fixes the literal-bound axes and removes them.
C16_LiteralSlice ==
    (tout.op = "literal_slice" /\ tout.exc = NoMapExc) =>
        LET full == [k \in 1..Len(DeclaredTypes) |-> Len(objects[DeclaredTypes[k]])]
            free == (1..Len(DeclaredTypes)) \ LiteralPositions
            sh   == select(full, free, 1)
        IN  /\ Len(tout.slices) = Len(DeclaredTypes)
            /\ \A k \in 1..Len(DeclaredTypes) :
                  tout.slices[k] =
                     IF k \in LiteralPositions
                     THEN [kind |-> "int", i |-> IndexInType(tin.pvars[k])]
                     ELSE [kind |-> "slice", i |-> 0]
            /\ tout.literals = {k - 1 : k \in LiteralPositions}
            /\ tout.value.ok
            /\ tout.value.shape = sh
            /\ \A idx \in Indices(sh) :
                  tout.value.at[idx] =
                     tin.base + ravel_index(
                        [k \in 1..Len(full) |->
                            IF k \in free
                            THEN idx[Cardinality({j \in free : j <= k})]
                            ELSE IndexInType(tin.pvars[k])],
                        full)

\* occ(h2, ?x) on the stored array of shape (2, 3): the second row
C16_Witness ==
    /\ tout.op = "literal_slice" /\ tout.exc = NoMapExc
    /\ tin.var = "occ"
    /\ tin.pvars = <<"h2", "?x">>
    /\ tout.slices = <<Fixed(1), SelectAll>>
    /\ tout.literals = {0}
    /\ tout.value.shape = <<3>>
    /\ tout.value.at[<<0>>] = tin.base + 3

\* ======================================================== expansion claims
CardinalityMismatchError ==
    [type |-> "RDDLInvalidNumberOfArgumentsError",
     msg |-> "Size of value array is not compatible"]

\* the number of grounded instances of the pvariable asked about
NumGrounded == size([k \in 1..Len(DeclaredTypes) |-> Len(objects[DeclaredTypes[k]])])

\* the arguments of the k-th grounded instance (k from 1) of a pvariable
\* with parameter Types types, in canonical order
RECURSIVE CanonicalArgs(_, _)
CanonicalArgs(k, types) ==
    IF types = <<>> THEN <<>>
    ELSE LET below == size([j \in 1..(Len(types) - 1) |->
                                Len(objects[types[j + 1]])])
         IN  <<objects[types[1]][((k - 1) \div below) + 1]>>
                \o CanonicalArgs(((k - 1) % below) + 1, Tail(types))

\* C17: expand of a declared pvariable fails with
\* CardinalityMismatchError whenever the array has another number of
\* elements than the pvariable has grounded instances; otherwise its k-th
\* pair is the k-th grounded name in canonical order with the k-th element
\* of the array in row-major order.
C17_Expand ==
    (tout.op = "expand" /\ tin.var \in DOMAIN tensor_param_types) =>
        IF size(tin.shape) # NumGrounded
        THEN tout.exc = CardinalityMismatchError /\ tout.pairs = NoPairs
        ELSE /\ tout.exc = NoMapExc
             /\ Len(tout.pairs) = NumGrounded
             /\ \A k \in 1..NumGrounded :
                   tout.pairs[k] =
                      << <<tin.var, CanonicalArgs(k, DeclaredTypes)>>,
                         tin.base + k - 1 >>

\* occ expanded from an array of its shape (2, 3): the fourth pair is
\* occ(h2, z1) with the first element of the second row
C17_Witness ==
    /\ tout.op = "expand" /\ tout.exc = NoMapExc
    /\ tin.var = "occ" /\ tin.shape = <<2, 3>>
    /\ tout.pairs[4] = << <<"occ", <<"h2", "z1">> >>, tin.base + 3 >>

\* C18: for the enum-ranged setting whose declared value at a grounded
\* name is the literal L, the pair that expand of the stored array gives
\* for that grounded name holds L.
C18_LiteralRoundTrip ==
    (tout.op = "build" /\ tout.exc = NoMapExc /\ ~tin.is_grounded) =>
        \A name \in DOMAIN tin.declared :
            (parse_var(name) = "setting" /\ tin.declared[name].t = "str") =>
                \E k \in 1..Len(tout.pairs) :
                    /\ tout.pairs[k][1] = name
                    /\ tout.pairs[k][2] = tin.declared[name]

\* ==================================================== object universe claims
ObjectResolutionError == [type |-> "RDDLInvalidObjectError", msg |-> "is not valid"]

\* the ordered instance list of Type ptype in the universe
InstancesOf(ptype) ==
    universe[CHOOSE k \in 1..Len(universe) : universe[k][1] = ptype][2]

\* C19: for every Type of the universe at once, the index table built at
\* construction gives each instance its position in the Type's ordered
\* instance list, so the instances of the Type are mapped one-to-one onto
\* 0 .. |T| - 1, whatever names the other Types declare.
C19_IndexPerType ==
    universe # <<>> =>
        \A k \in 1..Len(universe) :
            LET objs == universe[k][2]
            IN  /\ \A i \in 1..Len(objs) : index_of_object[objs[i]] = i - 1
                /\ {index_of_object[objs[i]] : i \in 1..Len(objs)}
                      = 0..(Len(objs) - 1)

\* C20: a lookup fails with ObjectResolutionError whenever a requested
\* instance is not among the instances of the Type it is requested for,
\* also when another Type declares it; no index is returned for it.
C20_LookupChecksType ==
    (tout.op = "coordinates"
        /\ \E k \in 1..Len(tin.objects) :
              \A i \in 1..Len(InstancesOf(tin.types[k])) :
                  InstancesOf(tin.types[k])[i] # tin.objects[k])
        => tout.exc = ObjectResolutionError /\ tout.ret = <<>>

\* ===================================================== initial value claims
\* the value the model declares for the grounded instance var(args), an
\* enum literal replaced by its position in its Type, or the range default
DeclaredOrDefault(var, args) ==
    LET name   == <<var, args>>
        prange == tin.variable_ranges[var]
    IN  IF name \in DOMAIN tin.declared /\ tin.declared[name] # PyNone
        THEN IF prange \in enum_types
             THEN PyInt(IndexInType(tin.declared[name].s))
             ELSE tin.declared[name]
        ELSE IF prange \in enum_types THEN PyInt(0) ELSE DEFAULT_VALUES[prange]

\* the array stored for var has the shape of its parameter Types and holds,
\* at the coordinates of every grounded instance, its declared value or
\* the default
DenseArray(var) ==
    LET types == tensor_param_types[var]
        name  == <<var, <<>> >>
    IN  /\ name \in DOMAIN tout.init_values
        /\ LET a == tout.init_values[name]
           IN  /\ a.shape = [j \in 1..Len(types) |-> Len(objects[types[j]])]
               /\ \A idx \in DOMAIN a.at :
                     a.at[idx] =
                        DeclaredOrDefault(var,
                            [j \in 1..Len(types) |-> objects[types[j]][idx[j] + 1]])

\* C21 as stated: after a construction that succeeds, every declared
\* pvariable has an initial array of the shape of its parameter Types in
\* declaration order, whose entry at the coordinates of each grounded
\* instance is the declared value (an enum literal replaced by its index)
\* or else the range default.
C21_DenseInitialValues ==
    (tout.op = "build" /\ tout.exc = NoMapExc) =>
        \A var \in DOMAIN tin.variable_ranges : DenseArray(var)

\* C21 amended: the same for a model that is not grounded; for a grounded
\* model every grounded instance of a parameterised pvariable has a scalar
\* of its own holding the declared value or the default, and the
\* pvariable itself has no array.
C21_DenseInitialValuesLifted ==
    (tout.op = "build" /\ tout.exc = NoMapExc) =>
        \A var \in DOMAIN tin.variable_ranges :
            IF tin.is_grounded /\ tensor_param_types[var] # <<>>
            THEN /\ <<var, <<>> >> \notin DOMAIN tout.init_values
                 /\ \A k \in 1..size([j \in 1..Len(tensor_param_types[var]) |->
                                         Len(objects[tensor_param_types[var][j]])]) :
                       LET args == CanonicalArgs(k, tensor_param_types[var])
                       IN  /\ <<var, args>> \in DOMAIN tout.init_values
                           /\ tout.init_values[<<var, args>>].shape = <<>>
                           /\ tout.init_values[<<var, args>>].at[<<>>]
                                 = DeclaredOrDefault(var, args)
            ELSE DenseArray(var)

\* a lifted model declaring occ(h2, z1), setting(z2) = h2 and temp = 2:
\* the arrays hold them at (1, 0), at (1,) and as a scalar, and the
\* defaults elsewhere
C21_Witness ==
    /\ tout.op = "build" /\ tout.exc = NoMapExc /\ ~tin.is_grounded
    /\ <<"occ", <<"h2", "z1">> >> \in DOMAIN tin.declared
    /\ <<"occ", <<"h1", "z2">> >> \notin DOMAIN tin.declared
    /\ <<"setting", <<"z2">> >> \in DOMAIN tin.declared
    /\ tin.declared[<<"setting", <<"z2">> >>] = PyStr("h2")
    /\ <<"temp", <<>> >> \in DOMAIN tin.declared
    /\ tin.declared[<<"temp", <<>> >>] = PyReal(2)
    /\ tout.init_values[<<"occ", <<>> >>].shape = <<2, 3>>
    /\ tout.init_values[<<"occ", <<>> >>].at[<<1, 0>>] = PyBool(TRUE)
    /\ tout.init_values[<<"occ", <<>> >>].at[<<0, 1>>] = PyBool(FALSE)
    /\ tout.init_values[<<"setting", <<>> >>].at[<<1>>] = PyInt(1)
    /\ tout.init_values[<<"temp", <<>> >>].at[<<>>] = PyReal(2)
    /\ tout.init_values[<<"adj", <<>> >>].at[<<2, 0>>] = PyInt(0)

\* ======================================================== step phase claims
\* the pvariables whose CPF was evaluated in the last call
Evaluated == {CpfCalls[j].name : j \in 1..Len(CpfCalls)}

\* the state-fluents
StateFluents == {next_states[n][2] : n \in 1..Len(next_states)}

\* the store as it stood in the last step before any member of Level l
\* was written: the actions merged and the outputs of the earlier Levels
PreLevelStore(l) ==
    DictUpdate(MergedStore,
               [name \in {n \in Evaluated : LevelOf(n) < l} |-> TraceValue(name)])

StoreAfterLevels ==
    DictUpdate(MergedStore, [name \in Evaluated |-> TraceValue(name)])

\* the positions of the trace holding the evaluations of the termination
\* functions
TermCalls == {j \in 1..Len(Trace) : Trace[j].kind = "termination"}

\* C23: a step that returns has merged the actions, then evaluated every
\* Level, then sampled the reward, then advanced the state-fluents, then
\* evaluated termination: the reward is the reward function on the store
\* holding this step's actions and next-state values and the state before
\* the step, and done is what the termination functions give on the store
\* holding the advanced state.
C23_PhaseOrder ==
    (last.op = "step" /\ Raised = NoExc) =>
        LET n == Len(CpfCalls)
        IN  /\ n = Len(level_order(levels))
            /\ \A j \in 1..n : Trace[j].kind = "cpf"
            /\ Trace[n + 1].kind = "reward"
            /\ TermCalls = (n + 2)..Len(Trace)
            /\ \A st \in StateFluents :
                  /\ StoreAfterLevels[st] = last.subs[st]
                  /\ subs[st] = TraceValue(NextStateOf(st))
            /\ \A a \in DOMAIN last.actions :
                  StoreAfterLevels[a] = last.actions[a]
            /\ last.out.ret.reward =
                  reward_fn(StoreAfterLevels, SplitN(last.key, n)).value
            /\ \A j \in TermCalls :
                  Trace[j].value =
                     terminals(Trace[j].name, subs, SplitN(last.key, j - 1)).value
            /\ last.out.ret.done = (\E j \in TermCalls : Trace[j].value)

\* a step whose reward differs from the reward function on the advanced
\* store, and whose done flag differs from the first termination function
\* on the store before the advance
C23_Witness ==
    /\ last.op = "step" /\ Raised = NoExc
    /\ last.out.ret.reward #
          reward_fn(subs, SplitN(last.key, Len(CpfCalls))).value
    /\ TermCalls # {}
    /\ last.out.ret.done
    /\ ~terminals(1, StoreAfterLevels, last.key).value
    /\ ~terminals(2, StoreAfterLevels, last.key).value

\* ======================================================= contraction claim
\* map returned a transform for an invocation that writes one label at two
\* or more positions that are not literal-bound
ContractionCase ==
    /\ tout.op = "map" /\ tout.exc = NoMapExc
    /\ \E k1, k2 \in 1..Len(FreeLabels) :
          k1 # k2 /\ FreeLabels[k1] = FreeLabels[k2]

\* C24: for an invocation that repeats a free label the returned
\* transform is a generalized contraction over the repeated label, not a
\* transpose; when the output signature names every label of the
\* invocation once, the array it gives has one axis per output entry and
\* holds at o the stored value on the diagonal o's labels spell, so
\* adj(?x, ?x) aligned to [(?x, zone)] gives r of shape (3,) with
\* r[i] = stored[i, i].
C24_Contraction ==
    ContractionCase =>
        /\ tout.fn.use_einsum
        /\ tout.fn.subscripts.kind = "einsum"
        /\ (\A k \in 1..Len(FreeLabels) : Cardinality(Carrying(k)) = 1)
              => Aligned
        /\ (tin.var = "adj" /\ tin.sign_out = << <<FreeLabels[1], "zone">> >>)
              => /\ tout.value.shape = <<Len(objects["zone"])>>
                 /\ \A i \in 0..(Len(objects["zone"]) - 1) :
                       tout.value.at[<<i>>] =
                          tin.base + i * Len(objects["zone"]) + i

\* adj(?x, ?x) aligned to [(?x, zone)]: the diagonal of the stored matrix
C24_Witness ==
    /\ ContractionCase
    /\ tin.var = "adj" /\ tin.literals = {}
    /\ tin.obj_in = <<"?x", "?x">>
    /\ tin.sign_out = << <<"?x", "zone">> >>
    /\ tout.value.ok
    /\ tout.value.shape = <<3>>
    /\ tout.value.at[<<1>>] = tin.base + 4
    /\ tout.value.at[<<2>>] = tin.base + 8

\* ============================================================ library claim
\* C25: in any sequence of map calls on one instance, the transform every
\* call returns performs its tensor arithmetic in the library passed to
\* that call as gnp, also when an earlier call with the same cache key was
\* made with another library.
C25_LibraryOfCall ==
    \A j \in 1..Len(map_calls) :
        map_calls[j].exc = NoMapExc => map_calls[j].fn.gnp = map_calls[j].gnp

\* ============================================================= frame claim
\* the last call raised while a CPF or the reward was being evaluated
RaisedInCpfOrReward ==
    /\ Raised.type = EvaluationError
    /\ Trace # <<>>
    /\ Trace[Len(Trace)].kind \in {"cpf", "reward"}

\* C26: if step raises EvaluationError while a CPF or the reward is
\* evaluated, every state-fluent slot of the store and the visible state
\* are as they were before the call (no state-fluent being a member of a
\* Level).
C26_NoAdvanceOnError ==
    (last.op = "step" /\ RaisedInCpfOrReward
        /\ \A st \in StateFluents :
              \A l \in 1..Len(levels) : \A j \in 1..Len(levels[l]) :
                  levels[l][j] # st)
        => /\ \A st \in StateFluents : subs[st] = last.subs[st]
           /\ state = last.state

\* a step in which every CPF was evaluated and the reward raised, when
\* the next-state values differed from the state and a visible state
\* existed
C26_Witness ==
    /\ last.op = "step" /\ RaisedInCpfOrReward
    /\ raise_error
    /\ Trace[Len(Trace)].kind = "reward"
    /\ last.state.tag = "dict"
    /\ \E st \in StateFluents : TraceValue(NextStateOf(st)) # last.subs[st]

====
